---- MODULE Spec2Model ----
(***************************************************************************)
(* A model of the MOS 6502 simulator (src/src/index.ts, class Simulator)   *)
(* and of its NSF driver (src/src/main.tsx, class Runner and the file      *)
(* handler of App).                                                        *)
(*                                                                         *)
(* Numbers are JavaScript numbers holding integers.  A Uint8Array cell     *)
(* (the seven registers, the 65,536 memory bytes) keeps a stored value     *)
(* modulo 256; everything else (an operation's "result", "after", the      *)
(* arguments of a handler) keeps its full value, as in the source.         *)
(***************************************************************************)
EXTENDS Integers, Sequences, FiniteSets, TLC

VARIABLES
    sim,        \* Runner.simulator: [pc, ac, x, y, sr, sp, mem, cycle]
    inited,     \* Runner.inited
    data,       \* Runner.data: the loaded file (a sequence of bytes), <<>> for null
    subId,      \* Runner.subId
    subs,       \* Runner.subs: the ids of the subscribed callbacks (a Map keeps insertion order = id order)
    notified,   \* the callback ids invoked by the latest handler, in call order
    last,       \* history: the latest call made on the runner or the simulator, and the state before it
    script,     \* the calls a test makes on the simulator's public API, in order (<<>> under the driver)
    ip          \* the index in script of the next call

vars == <<sim, inited, data, subId, subs, notified, last, script, ip>>

----------------------------------------------------------------------------
(* JavaScript integer arithmetic *)

\* &, | and ^ work on the two's complement bits of their operands.  Every
\* operand the source gives them lies well inside the 32 bits JavaScript
\* keeps, so the operators below work bit by bit on the integers themselves:
\* a % 2 is the lowest bit and a \div 2 (rounding down) the remaining ones,
\* which end in 0 (all bits clear) or in -1 (all bits set).

\* a & b
RECURSIVE And(_, _)
And(a, b) ==
    IF a = 0 \/ b = 0 THEN 0
    ELSE IF a = -1 THEN b
    ELSE IF b = -1 THEN a
    ELSE (a % 2) * (b % 2) + 2 * And(a \div 2, b \div 2)

\* a | b
RECURSIVE Or(_, _)
Or(a, b) ==
    IF a = 0 THEN b
    ELSE IF b = 0 THEN a
    ELSE IF a = -1 \/ b = -1 THEN -1
    ELSE (IF a % 2 = 1 \/ b % 2 = 1 THEN 1 ELSE 0) + 2 * Or(a \div 2, b \div 2)

\* a ^ b
RECURSIVE Xor(_, _)
Xor(a, b) ==
    IF a = 0 THEN b
    ELSE IF b = 0 THEN a
    ELSE IF a = -1 THEN -b - 1
    ELSE IF b = -1 THEN -a - 1
    ELSE (IF a % 2 # b % 2 THEN 1 ELSE 0) + 2 * Xor(a \div 2, b \div 2)

\* a << n and a >> n
Shl(a, n) == a * (2 ^ n)

Shr(a, n) == a \div (2 ^ n)

\* The value a Uint8Array cell keeps of a stored integer.
ToUint8(v) == v % 256

\* An optional field of an OperationProduct: <<>> when absent, <<v>> when present.
\* Nullish(f, d) is  f ?? d.
Nullish(f, d) == IF f = <<>> THEN d ELSE f[1]

----------------------------------------------------------------------------
(* Memory: #mem, a Uint8Array(2 ** 16) that starts zeroed.  The model keeps *)
(* the cells that are not 0: a function from their addresses to their      *)
(* values.  Two memories are equal iff they hold the same bytes.           *)

MemSize == 65536

EmptyMem == [a \in {} |-> 0]

\* #mem[i]
MemRead(mem, i) == IF i \in DOMAIN mem THEN mem[i] ELSE 0

\* #mem[i] = val: a store at an index outside the array is dropped.
MemStore(mem, i, val) ==
    IF i < 0 \/ i >= MemSize THEN mem
    ELSE LET v == ToUint8(val)
             d == IF v = 0 THEN DOMAIN mem \ {i} ELSE DOMAIN mem \cup {i}
         IN  [a \in d |-> IF a = i THEN v ELSE mem[a]]

----------------------------------------------------------------------------
(* class Simulator: the register file and the memory API *)

\* new Simulator(): registers zeroed, then #sp = 0xFF; memory zeroed; cycle = 0.
NewSimulator ==
    [pc |-> 0, ac |-> 0, x |-> 0, y |-> 0, sr |-> 0, sp |-> \hFF,
     mem |-> EmptyMem, cycle |-> 0]

\* set #pc(value): registers[0] = value & 0xFF; registers[1] = value >> 8,
\* each kept modulo 256; get #pc() reads registers[1] << 8 | registers[0].
SetPc(s, value) ==
    [s EXCEPT !.pc = Or(Shl(ToUint8(Shr(value, 8)), 8), ToUint8(And(value, \hFF)))]

\* An Int8Array cell: the stored byte read as a signed 8-bit value.
\* An offset read as an unsigned byte.
ToInt8Unsigned(v) == ToUint8(v)

\* arr = new Int8Array(1); arr[0] = v
ToInt8(v) == IF ToUint8(v) >= 128 THEN ToUint8(v) - 256 ELSE ToUint8(v)

\* offsetProgramCounter(offset)
offsetProgramCounter(s, offset) == SetPc(s, s.pc + ToInt8(offset))

\* incProgramCounter(): this.#pc++
incProgramCounter(s) == SetPc(s, s.pc + 1)

\* The flag getters: sr & mask (the mask, or 0).
GetFlag(s, mask) == And(s.sr, mask)

\* The flag setters: sr |= mask when val is truthy, sr &= ~mask otherwise.
SetFlag(s, mask, val) ==
    [s EXCEPT !.sr = IF val # 0 THEN ToUint8(Or(s.sr, mask))
                                ELSE ToUint8(And(s.sr, 255 - mask))]

CarryMask == 1
ZeroMask == 2
InterruptMask == 4
DecimalMask == 8
OverflowMask == 64
NegativeMask == 128

\* Number(b) of a boolean
Num(b) == IF b THEN 1 ELSE 0

\* get(ll, hh = 0, offset = 0): #mem[hh << 8 | ll + offset]; + binds tighter
\* than <<, and << tighter than |, so the index is (hh << 8) | (ll + offset).
GetIndex(ll, hh, offset) == Or(Shl(hh, 8), ll + offset)

get(s, ll, hh, offset) == MemRead(s.mem, GetIndex(ll, hh, offset))

\* set(ll, hh, offset, val)
set(s, ll, hh, offset, val) ==
    [s EXCEPT !.mem = MemStore(s.mem, GetIndex(ll, hh, offset), val)]

\* A fill that leaves memory as it is.
fillNothing(s, start, end, val) == s

\* fill(start, end, val): #mem.fill(val, start, end), for 0 <= start <= end
fill(s, start, end, val) ==
    LET v == ToUint8(val)
        top == IF end > MemSize THEN MemSize - 1 ELSE end - 1
        keep == {a \in DOMAIN s.mem : a < start \/ a > top}
        d == IF v = 0 THEN keep ELSE keep \cup (start .. top)
    IN  [s EXCEPT !.mem = [a \in d |-> IF a \in keep THEN s.mem[a] ELSE v]]

\* write(values, targetOffset): #mem.set(values, targetOffset).  TypedArray.set
\* throws a RangeError, storing nothing, when the values do not fit between
\* targetOffset and the end of the array.
WriteThrows(values, targetOffset) == targetOffset + Len(values) > MemSize

RECURSIVE StoreAll(_, _, _)
StoreAll(mem, values, at) ==
    IF values = <<>> THEN mem
    ELSE StoreAll(MemStore(mem, at, Head(values)), Tail(values), at + 1)

write(s, values, targetOffset) ==
    IF WriteThrows(values, targetOffset) THEN s
    ELSE [s EXCEPT !.mem = StoreAll(s.mem, values, targetOffset)]

\* A push that writes into the zero page.
pushStackValueInZeroPage(s, val) ==
    [s EXCEPT !.mem = MemStore(s.mem, s.sp, val),
              !.sp = ToUint8(s.sp - 1)]

\* pushStackValue(val): #mem[0x0100 | #sp--] = val
pushStackValue(s, val) ==
    [s EXCEPT !.mem = MemStore(s.mem, Or(\h0100, s.sp), val),
              !.sp = ToUint8(s.sp - 1)]

\* popStackValue(): #sp++; return get(#sp, 0x01).  PopState is the simulator
\* after the pop, PopValue the byte it returns.
PopState(s) == [s EXCEPT !.sp = ToUint8(s.sp + 1)]

PopValue(s) == get(PopState(s), PopState(s).sp, 1, 0)

----------------------------------------------------------------------------
(* OperationProduct and #afterOperationActions *)

\* What an operation returns: Void for an operation that returns nothing.
NoProduct ==
    [void |-> FALSE, result |-> 0, isOverflow |-> FALSE, isZero |-> FALSE,
     isNegative |-> FALSE, isCarry |-> FALSE, isSetter |-> FALSE,
     before |-> <<>>, after |-> <<>>, byte |-> <<>>]

Void == [NoProduct EXCEPT !.void = TRUE]

\* The overflow flag as #afterOperationActions computes it.
OverflowOf(product) ==
    LET beforeSign == And(Nullish(product.before, 0), \h80)
        byteSign == And(Nullish(product.byte, 0), \h80)
        afterSign == And(Nullish(product.after, 0), \h80)
    IN  Num(And(beforeSign, byteSign) # 0 /\ Xor(afterSign, beforeSign) # 0)

\* The carry flag as #afterOperationActions computes it.
CarryOf(product) == Num(product.result > \hFF)

\* The four tests of #afterOperationActions, in its order: each sets one
\* flag of t, the simulator as the tests before it left it.
afterOperationActions(s, product) ==
    LET Negative(t) ==
            IF product.isNegative
            THEN SetFlag(t, NegativeMask, And(Nullish(product.after, 0), \h80))
            ELSE t
        Zero(t) ==
            IF product.isZero
            THEN SetFlag(t, ZeroMask, Num(Nullish(product.after, 0) = 0))
            ELSE t
        Carry(t) ==
            IF product.isCarry THEN SetFlag(t, CarryMask, CarryOf(product)) ELSE t
        Overflow(t) ==
            IF product.isOverflow THEN SetFlag(t, OverflowMask, OverflowOf(product)) ELSE t
    IN  Overflow(Carry(Zero(Negative(s))))

----------------------------------------------------------------------------
(* The operations the constructor registers.  An operation takes the       *)
(* simulator and its argument(s) and yields the simulator as it leaves it  *)
(* and the product it returns.                                             *)

Ret(s, product) == [s |-> s, p |-> product]

\* An OperationProduct literal: the flags it sets to true and its fields.
Product(flags, before, result, after, byte) ==
    [void |-> FALSE, result |-> result,
     isOverflow |-> "isOverflow" \in flags, isZero |-> "isZero" \in flags,
     isNegative |-> "isNegative" \in flags, isCarry |-> "isCarry" \in flags,
     isSetter |-> "isSetter" \in flags,
     before |-> before, after |-> after, byte |-> byte]

\* An addition that leaves the carry flag out of the sum.
ADCWithoutCarry(s, byte) ==
    LET before == s.ac
        result == s.ac + byte
        s1 == [s EXCEPT !.ac = ToUint8(result)]
    IN  Ret(s1, Product({"isNegative", "isZero", "isCarry", "isOverflow"},
                        <<before>>, result, <<s1.ac>>, <<byte>>))

ADC(s, byte) ==
    LET before == s.ac
        result == s.ac + byte + GetFlag(s, CarryMask)
        s1 == [s EXCEPT !.ac = ToUint8(result)]
    IN  Ret(s1, Product({"isNegative", "isZero", "isCarry", "isOverflow"},
                        <<before>>, result, <<s1.ac>>, <<byte>>))

\* An AND that also asks for the carry flag to be set from its result.
ANDWithCarry(s, byte) ==
    LET before == s.ac
        result == And(s.ac, byte)
        s1 == [s EXCEPT !.ac = ToUint8(And(s.ac, byte))]
    IN  Ret(s1, Product({"isNegative", "isZero", "isCarry"},
                        <<before>>, result, <<s1.ac>>, <<byte>>))

AND(s, byte) ==
    LET before == s.ac
        result == And(s.ac, byte)
        s1 == [s EXCEPT !.ac = ToUint8(And(s.ac, byte))]
    IN  Ret(s1, Product({"isNegative", "isZero"}, <<before>>, result, <<s1.ac>>, <<byte>>))

ASL(s, byte) ==
    LET before == byte
    IN  Ret(s, Product({"isNegative", "isZero", "isCarry", "isSetter"},
                       <<byte>>, Shl(before, 1), <<And(Shl(before, 1), \hFF)>>, <<>>))

\* The eight branches: offsetProgramCounter(offset) when the flag test passes.
Branch(s, taken, offset) ==
    Ret(IF taken THEN offsetProgramCounter(s, offset) ELSE s, Void)

BCC(s, offset) == Branch(s, GetFlag(s, CarryMask) = 0, offset)

BCS(s, offset) == Branch(s, GetFlag(s, CarryMask) # 0, offset)

BEQ(s, offset) == Branch(s, GetFlag(s, ZeroMask) # 0, offset)

\* isZero = #ac & byte; then byte & 0x80 and byte & 0x02 each set or clear
\* the bit of #sr they name.
BIT(s, byte) ==
    LET Bit7(t) == [t EXCEPT !.sr = IF And(byte, \h80) # 0 THEN ToUint8(Or(t.sr, \h80))
                                                           ELSE ToUint8(And(t.sr, \h7F))]
        Bit1(t) == [t EXCEPT !.sr = IF And(byte, \h02) # 0 THEN ToUint8(Or(t.sr, \h02))
                                                           ELSE ToUint8(And(t.sr, \hFD))]
    IN  Ret(Bit1(Bit7(SetFlag(s, ZeroMask, And(s.ac, byte)))), Void)

BMI(s, offset) == Branch(s, GetFlag(s, NegativeMask) # 0, offset)

BNE(s, offset) == Branch(s, GetFlag(s, ZeroMask) = 0, offset)

BPL(s, offset) == Branch(s, GetFlag(s, NegativeMask) = 0, offset)

\* #pc += 2; push #pc >> 8; push #pc & 0xFF; #sr |= 0x04; push #sr;
\* #pc = get(0xFFFE) | (get(0xFFFF) << 8)
BRK(s) ==
    LET PushHigh(t) == pushStackValue(t, Shr(t.pc, 8))
        PushLow(t) == pushStackValue(t, And(t.pc, \hFF))
        SetInterrupt(t) == [t EXCEPT !.sr = ToUint8(Or(t.sr, \h04))]
        PushStatus(t) == pushStackValue(t, t.sr)
        Vector(t) == SetPc(t, Or(get(t, \hFFFE, 0, 0), Shl(get(t, \hFFFF, 0, 0), 8)))
    IN  Ret(Vector(PushStatus(SetInterrupt(PushLow(PushHigh(SetPc(s, s.pc + 2)))))), Void)

BVC(s, offset) == Branch(s, GetFlag(s, OverflowMask) = 0, offset)

BVS(s, offset) == Branch(s, GetFlag(s, OverflowMask) # 0, offset)

CLC(s) == Ret(SetFlag(s, CarryMask, 0), Void)

CLD(s) == Ret([s EXCEPT !.sr = ToUint8(And(s.sr, \hF7))], Void)

CLI(s) == Ret([s EXCEPT !.sr = ToUint8(And(s.sr, \hFB))], Void)

CLV(s) == Ret(SetFlag(s, OverflowMask, 0), Void)

CMP(s, byte) ==
    LET before == s.ac
        result == s.ac - byte
        s1 == [s EXCEPT !.ac = ToUint8(result)]
    IN  Ret(s1, Product({"isNegative", "isZero", "isCarry"},
                        <<before>>, result, <<s1.ac>>, <<byte>>))

CPX(s, byte) ==
    LET before == s.x
        result == s.x - byte
        s1 == [s EXCEPT !.x = ToUint8(result)]
    IN  Ret(s1, Product({"isNegative", "isZero", "isCarry"},
                        <<before>>, result, <<s1.x>>, <<byte>>))

\* after: this.#y = result  is the assigned value, result itself
CPY(s, byte) ==
    LET before == s.y
        result == s.y - byte
        s1 == [s EXCEPT !.y = ToUint8(result)]
    IN  Ret(s1, Product({"isNegative", "isZero", "isCarry"},
                        <<before>>, result, <<result>>, <<byte>>))

DEC(s, byte) ==
    LET before == byte
        result == byte - 1
    IN  Ret(s, Product({"isNegative", "isZero", "isSetter"},
                       <<before>>, result, <<result>>, <<byte>>))

DEX(s) ==
    LET before == s.x
        result == s.x - 1
        s1 == [s EXCEPT !.x = ToUint8(s.x - 1)]
    IN  Ret(s1, Product({"isNegative", "isZero", "isSetter"},
                        <<before>>, result, <<s1.x>>, <<>>))

DEY(s) ==
    LET before == s.y
        result == s.y - 1
        s1 == [s EXCEPT !.y = ToUint8(s.y - 1)]
    IN  Ret(s1, Product({"isNegative", "isZero", "isSetter"},
                        <<before>>, result, <<s1.y>>, <<>>))

\* after: this.#ac = result
EOR(s, byte) ==
    LET before == s.ac
        result == Xor(s.ac, byte)
        s1 == [s EXCEPT !.ac = ToUint8(result)]
    IN  Ret(s1, Product({"isNegative", "isZero"}, <<before>>, result, <<result>>, <<byte>>))

INC(s, byte) ==
    LET before == byte
        result == byte + 1
    IN  Ret(s, Product({"isNegative", "isZero", "isSetter"},
                       <<before>>, result, <<result>>, <<byte>>))

INX(s) ==
    LET before == s.x
        result == s.x + 1
        s1 == [s EXCEPT !.x = ToUint8(s.x + 1)]
    IN  Ret(s1, Product({"isNegative", "isZero", "isSetter"},
                        <<before>>, result, <<s1.x>>, <<>>))

INY(s) ==
    LET before == s.y
        result == s.y + 1
        s1 == [s EXCEPT !.y = ToUint8(s.y + 1)]
    IN  Ret(s1, Product({"isNegative", "isZero", "isSetter"},
                        <<before>>, result, <<s1.y>>, <<>>))

\* JMP absolute (0x4C)
JMP(s, ll, hh) == Ret(SetPc(s, Or(Shl(hh, 8), ll)), Void)

\* JMP indirect (0x6C): get(ll, hh) & 0xFF | (get(ll, hh, 1) << 8)
JMPIndirect(s, ll, hh) ==
    Ret(SetPc(s, Or(And(get(s, ll, hh, 0), \hFF), Shl(get(s, ll, hh, 1), 8))), Void)

\* push #pc >> 8; push #pc & 0xFF; #pc = (hh << 8) | ll
JSR(s, ll, hh) ==
    LET PushHigh(t) == pushStackValue(t, Shr(t.pc, 8))
        PushLow(t) == pushStackValue(t, And(t.pc, \hFF))
    IN  Ret(SetPc(PushLow(PushHigh(s)), Or(Shl(hh, 8), ll)), Void)

\* after: this.#ac = byte
LDA(s, byte) ==
    Ret([s EXCEPT !.ac = ToUint8(byte)],
        Product({"isNegative", "isZero"}, <<s.ac>>, byte, <<byte>>, <<byte>>))

LDX(s, byte) ==
    Ret([s EXCEPT !.x = ToUint8(byte)],
        Product({"isNegative", "isZero"}, <<s.x>>, byte, <<byte>>, <<byte>>))

LDY(s, byte) ==
    Ret([s EXCEPT !.y = ToUint8(byte)],
        Product({"isNegative", "isZero"}, <<s.y>>, byte, <<byte>>, <<byte>>))

LSR(s, byte) ==
    LET before == byte
        result == Shr(byte, 1)
        s1 == SetFlag(s, CarryMask, And(byte, 1))
    IN  Ret(s1, Product({"isNegative", "isZero", "isSetter"},
                        <<before>>, result, <<result>>, <<byte>>))

NOP(s) == Ret(s, Void)

ORA(s, byte) ==
    LET before == s.ac
        result == Or(s.ac, byte)
    IN  Ret(s, Product({"isNegative", "isZero", "isSetter"},
                       <<before>>, result, <<result>>, <<byte>>))

PHA(s) == Ret(pushStackValue(s, s.ac), Void)

PHP(s) == Ret(pushStackValue(s, s.sr), Void)

\* The product has no "after".
PLA(s) ==
    LET s1 == [PopState(s) EXCEPT !.ac = PopValue(s)]
    IN  Ret(s1, Product({"isNegative", "isZero"}, <<>>, s1.ac, <<>>, <<>>))

PLP(s) == Ret([PopState(s) EXCEPT !.sr = PopValue(s)], Void)

\* A rotation to the left that shifts a 0 in.
ROLOfZero(s, byte) ==
    LET before == byte
        result == Shl(byte, 1)
    IN  Ret(s, Product({"isNegative", "isZero", "isSetter", "isCarry"},
                       <<before>>, result, <<And(result, \hFF)>>, <<byte>>))

ROL(s, byte) ==
    LET before == byte
        result == Or(Shl(byte, 1), And(s.sr, 1))
    IN  Ret(s, Product({"isNegative", "isZero", "isSetter", "isCarry"},
                       <<before>>, result, <<And(result, \hFF)>>, <<byte>>))

ROR(s, byte) ==
    LET before == byte
        result == Or(Shr(byte, 1), Shl(And(s.sr, 1), 7))
        s1 == SetFlag(s, CarryMask, And(byte, 1))
    IN  Ret(s1, Product({"isNegative", "isZero", "isSetter"},
                        <<before>>, result, <<And(result, \hFF)>>, <<byte>>))

\* #sr = pop; #pc = pop | (pop << 8), the pops left to right
RTI(s) ==
    LET PopSr(t) == [PopState(t) EXCEPT !.sr = PopValue(t)]
        PopPc(t) == SetPc(PopState(PopState(t)),
                          Or(PopValue(t), Shl(PopValue(PopState(t)), 8)))
    IN  Ret(PopPc(PopSr(s)), Void)

\* An RTS that continues one byte after the popped address.
RTSOfNextAddress(s) ==
    Ret(SetPc(PopState(PopState(s)), Or(PopValue(s), Shl(PopValue(PopState(s)), 8)) + 1), Void)

\* #pc = pop | (pop << 8), the pops left to right
RTS(s) ==
    Ret(SetPc(PopState(PopState(s)), Or(PopValue(s), Shl(PopValue(PopState(s)), 8))), Void)

\* result = #ac - byte - (1 - isCarry); isCarry = result >= 0; isOverflow =
\* ((#ac ^ result) & 0x80) !== 0 && ((#ac ^ byte) & 0x80) !== 0.  #ac is not
\* assigned: the product is marked isSetter.
SBC(s, byte) ==
    LET before == s.ac
        result == s.ac - byte - (1 - GetFlag(s, CarryMask))
        SetCarry(t) == SetFlag(t, CarryMask, Num(result >= 0))
        SetOverflow(t) ==
            SetFlag(t, OverflowMask,
                    Num(And(Xor(t.ac, result), \h80) # 0 /\ And(Xor(t.ac, byte), \h80) # 0))
    IN  Ret(SetOverflow(SetCarry(s)),
            Product({"isNegative", "isZero", "isSetter"},
                    <<before>>, result, <<And(result, \hFF)>>, <<byte>>))

SEC(s) == Ret(SetFlag(s, CarryMask, 1), Void)

SED(s) == Ret(SetFlag(s, DecimalMask, 1), Void)

SEI(s) == Ret(SetFlag(s, InterruptMask, 1), Void)

\* A store that hands out X instead of A.
STAOfX(s) == Ret(s, Product({"isSetter"}, <<s.ac>>, s.x, <<s.ac>>, <<>>))

STA(s) == Ret(s, Product({"isSetter"}, <<s.ac>>, s.ac, <<s.ac>>, <<>>))

STX(s) == Ret(s, Product({"isSetter"}, <<s.x>>, s.x, <<s.x>>, <<>>))

STY(s) == Ret(s, Product({"isSetter"}, <<s.y>>, s.y, <<s.y>>, <<>>))

\* The transfers' products have no "after".
TAX(s) ==
    LET s1 == [s EXCEPT !.x = s.ac]
    IN  Ret(s1, Product({"isNegative", "isZero"}, <<>>, s1.x, <<>>, <<>>))

TAY(s) ==
    LET s1 == [s EXCEPT !.y = s.ac]
    IN  Ret(s1, Product({"isNegative", "isZero"}, <<>>, s1.y, <<>>, <<>>))

TSX(s) ==
    LET s1 == [s EXCEPT !.x = s.sp]
    IN  Ret(s1, Product({"isNegative", "isZero"}, <<>>, s1.x, <<>>, <<>>))

TXA(s) ==
    LET s1 == [s EXCEPT !.ac = s.x]
    IN  Ret(s1, Product({"isNegative", "isZero"}, <<>>, s1.ac, <<>>, <<>>))

TXS(s) == Ret([s EXCEPT !.sp = s.x], Void)

TYA(s) ==
    LET s1 == [s EXCEPT !.ac = s.y]
    IN  Ret(s1, Product({"isNegative", "isZero"}, <<>>, s1.ac, <<>>, <<>>))

----------------------------------------------------------------------------
(* The dispatch table: the constructor's calls of #addOperationWithByte and *)
(* #addOperation, in the order it makes them.                              *)

\* The codes of an OperationSpecWithByte, in the order #addOperationWithByte
\* tests them; 0 stands for a code the spec does not give (both are falsy).
Modes ==
    <<"accumulator", "immediate", "zeropage", "zeropageX", "zeropageY",
      "absolute", "absoluteX", "absoluteY", "indirectX", "indirectY">>

WithByte(name, codes) ==
    [name |-> name, withByte |-> TRUE, codes |-> codes, code |-> 0, length |-> 0]

\* An OperationSpec; length is the number of parameters its operation declares.
Plain(name, code, length) ==
    [name |-> name, withByte |-> FALSE, codes |-> <<>>, code |-> code, length |-> length]

Registrations == <<
    WithByte("ADC", <<0, \h69, \h65, \h75, 0, \h6D, \h7D, \h79, \h61, \h71>>),
    WithByte("AND", <<0, \h29, \h25, \h35, 0, \h2D, \h3D, \h39, \h21, \h31>>),
    WithByte("ASL", <<\h0A, 0, \h06, \h16, 0, \h0E, \h1E, 0, 0, 0>>),
    Plain("BCC", \h90, 1),
    Plain("BCS", \hB0, 1),
    Plain("BEQ", \hF0, 1),
    WithByte("BIT", <<0, 0, \h24, 0, 0, \h2C, 0, 0, 0, 0>>),
    Plain("BMI", \h30, 1),
    Plain("BNE", \hD0, 1),
    Plain("BPL", \h10, 1),
    Plain("BRK", \h00, 0),
    Plain("BVC", \h50, 1),
    Plain("BVS", \h70, 1),
    Plain("CLC", \h18, 0),
    Plain("CLD", \hD8, 0),
    Plain("CLI", \h58, 0),
    Plain("CLV", \hB8, 0),
    WithByte("CMP", <<0, \hC9, \hC5, \hD5, 0, \hCD, \hDD, \hD9, \hC1, \hD1>>),
    WithByte("CPX", <<0, \hE0, \hE4, 0, 0, \hEC, 0, 0, 0, 0>>),
    WithByte("CPY", <<0, \hC0, \hC4, 0, 0, \hCC, 0, 0, 0, 0>>),
    WithByte("DEC", <<0, 0, \hC6, \hD6, 0, \hCE, \hDE, 0, 0, 0>>),
    Plain("DEX", \hCA, 0),
    Plain("DEY", \h88, 0),
    WithByte("EOR", <<0, \h49, \h45, \h55, 0, \h4D, \h5D, \h59, \h41, \h51>>),
    WithByte("INC", <<0, 0, \hE6, \hF6, 0, \hEE, \hFE, 0, 0, 0>>),
    Plain("INX", \hE8, 0),
    Plain("INY", \hC8, 0),
    Plain("JMP", \h4C, 2),
    Plain("JMP", \h6C, 2),
    Plain("JSR", \h20, 2),
    WithByte("LDA", <<0, \hA9, \hA5, \hB5, 0, \hAD, \hBD, \hB9, \hA1, \hB1>>),
    WithByte("LDX", <<0, \hA2, \hA6, 0, \hB6, \hAE, 0, \hBE, 0, 0>>),
    WithByte("LDY", <<0, \hA0, \hA4, \hB4, 0, \hAC, \hBC, 0, 0, 0>>),
    WithByte("LSR", <<\h4A, 0, \h46, \h56, 0, \h4E, \h5E, 0, 0, 0>>),
    Plain("NOP", \hEA, 0),
    WithByte("ORA", <<0, \h09, \h05, \h15, 0, \h0D, \h1D, \h19, \h01, \h11>>),
    Plain("PHA", \h48, 0),
    Plain("PHP", \h08, 0),
    Plain("PLA", \h68, 0),
    Plain("PLP", \h28, 0),
    WithByte("ROL", <<\h2A, 0, \h26, \h36, 0, \h2E, \h3E, 0, 0, 0>>),
    WithByte("ROR", <<\h6A, 0, \h66, \h76, 0, \h6E, \h7E, 0, 0, 0>>),
    Plain("RTI", \h40, 0),
    Plain("RTS", \h60, 0),
    WithByte("SBC", <<0, \hE9, \hE5, \hF5, 0, \hED, \hFD, \hF9, \hE1, \hF1>>),
    Plain("SEC", \h38, 0),
    Plain("SED", \hF8, 0),
    Plain("SEI", \h78, 0),
    WithByte("STA", <<0, 0, \h85, \h95, 0, \h8D, \h9D, \h99, \h81, \h91>>),
    WithByte("STX", <<0, 0, \h86, 0, \h96, \h8E, 0, 0, 0, 0>>),
    WithByte("STY", <<0, 0, \h84, \h94, 0, \h8C, 0, 0, 0, 0>>),
    Plain("TAX", \hAA, 0),
    Plain("TAY", \hA8, 0),
    Plain("TSX", \hBA, 0),
    Plain("TXA", \h8A, 0),
    Plain("TXS", \h9A, 0),
    Plain("TYA", \h98, 0) >>

\* The handlers stored under a code: <<i, j>> for mode j of registration i
\* (#addOperationWithByte stores a handler only for a truthy code), <<i, 0>>
\* for the operation of registration i (#addOperation stores it whatever the code).
Stored(code) ==
    {<<i, j>> \in (1 .. Len(Registrations)) \X (0 .. Len(Modes)) :
        LET r == Registrations[i]
        IN  IF r.withByte THEN j > 0 /\ r.codes[j] # 0 /\ r.codes[j] = code
                          ELSE j = 0 /\ r.code = code}

\* A later store under the same code replaces an earlier one.
LastStored(code) ==
    CHOOSE h \in Stored(code) :
        \A g \in Stored(code) : g[1] < h[1] \/ (g[1] = h[1] /\ g[2] <= h[2])

\* The number of parameters each handler of #addOperationWithByte declares:
\* () for accumulator, (val) for immediate, (ll) or (ll, hh) for the others.
HandlerLength ==
    [j \in 1 .. Len(Modes) |->
        CASE Modes[j] = "accumulator" -> 0
          [] Modes[j] \in {"absolute", "absoluteX", "absoluteY"} -> 2
          [] OTHER -> 1]

\* A table in which every entry reports the length of its operation, as the
\* Proxy of #addOperation does: (byte) for an OperationSpecWithByte.
OpsLengthOfOperation(registration, j) ==
    IF registration.withByte THEN 1 ELSE registration.length

\* ops[code].length: the handler's own length, or, through the Proxy that
\* #addOperation installs, the length of the operation.
OpsLength(registration, j) ==
    IF registration.withByte THEN HandlerLength[j] ELSE registration.length

\* ops and codeToName, as the constructor leaves them.  mode is "" for an
\* operation of #addOperation; codeToName[code] is name, followed by the
\* mode's suffix for a handler of #addOperationWithByte.
Ops ==
    [code \in 0 .. 255 |->
        IF Stored(code) = {}
        THEN [registered |-> FALSE, name |-> "", mode |-> "", length |-> 0]
        ELSE LET h == LastStored(code)
                 r == Registrations[h[1]]
             IN  [registered |-> TRUE, name |-> r.name,
                  mode |-> IF h[2] = 0 THEN "" ELSE Modes[h[2]],
                  length |-> OpsLength(r, h[2])]]

codeToName(code) == <<Ops[code].name, Ops[code].mode>>

----------------------------------------------------------------------------
(* The handlers stored in ops *)

\* A handler that does not count.
CountNothing(s) == s

\* this.cycle++
CountCycle(s) == [s EXCEPT !.cycle = s.cycle + 1]

\* spec.operation(byte) of an OperationSpecWithByte
OperationWithByte(name, s, byte) ==
    CASE name = "ADC" -> ADC(s, byte)
      [] name = "AND" -> AND(s, byte)
      [] name = "ASL" -> ASL(s, byte)
      [] name = "BIT" -> BIT(s, byte)
      [] name = "CMP" -> CMP(s, byte)
      [] name = "CPX" -> CPX(s, byte)
      [] name = "CPY" -> CPY(s, byte)
      [] name = "DEC" -> DEC(s, byte)
      [] name = "EOR" -> EOR(s, byte)
      [] name = "INC" -> INC(s, byte)
      [] name = "LDA" -> LDA(s, byte)
      [] name = "LDX" -> LDX(s, byte)
      [] name = "LDY" -> LDY(s, byte)
      [] name = "LSR" -> LSR(s, byte)
      [] name = "ORA" -> ORA(s, byte)
      [] name = "ROL" -> ROL(s, byte)
      [] name = "ROR" -> ROR(s, byte)
      [] name = "SBC" -> SBC(s, byte)
      [] name = "STA" -> STA(s)
      [] name = "STX" -> STX(s)
      [] name = "STY" -> STY(s)

\* spec.operation(...args) of an OperationSpec
PlainOperation(code, s, args) ==
    CASE code = \h90 -> BCC(s, args[1])
      [] code = \hB0 -> BCS(s, args[1])
      [] code = \hF0 -> BEQ(s, args[1])
      [] code = \h30 -> BMI(s, args[1])
      [] code = \hD0 -> BNE(s, args[1])
      [] code = \h10 -> BPL(s, args[1])
      [] code = \h00 -> BRK(s)
      [] code = \h50 -> BVC(s, args[1])
      [] code = \h70 -> BVS(s, args[1])
      [] code = \h18 -> CLC(s)
      [] code = \hD8 -> CLD(s)
      [] code = \h58 -> CLI(s)
      [] code = \hB8 -> CLV(s)
      [] code = \hCA -> DEX(s)
      [] code = \h88 -> DEY(s)
      [] code = \hE8 -> INX(s)
      [] code = \hC8 -> INY(s)
      [] code = \h4C -> JMP(s, args[1], args[2])
      [] code = \h6C -> JMPIndirect(s, args[1], args[2])
      [] code = \h20 -> JSR(s, args[1], args[2])
      [] code = \hEA -> NOP(s)
      [] code = \h48 -> PHA(s)
      [] code = \h08 -> PHP(s)
      [] code = \h68 -> PLA(s)
      [] code = \h28 -> PLP(s)
      [] code = \h40 -> RTI(s)
      [] code = \h60 -> RTS(s)
      [] code = \h38 -> SEC(s)
      [] code = \hF8 -> SED(s)
      [] code = \h78 -> SEI(s)
      [] code = \hAA -> TAX(s)
      [] code = \hA8 -> TAY(s)
      [] code = \hBA -> TSX(s)
      [] code = \h8A -> TXA(s)
      [] code = \h9A -> TXS(s)
      [] code = \h98 -> TYA(s)

\* The byte each handler of #addOperationWithByte hands to the operation.
OperandByte(s, mode, args) ==
    CASE mode = "accumulator" -> s.ac
      [] mode = "immediate" -> args[1]
      [] mode = "zeropage" -> get(s, args[1], 0, 0)
      [] mode = "zeropageX" -> get(s, args[1], 0, s.x)
      [] mode = "zeropageY" -> get(s, args[1], 0, s.y)
      [] mode = "absolute" -> get(s, args[1], args[2], 0)
      [] mode = "absoluteX" -> get(s, args[1], args[2], s.x)
      [] mode = "absoluteY" -> get(s, args[1], args[2], s.y)
      [] mode = "indirectX" ->
            get(s, get(s, args[1], 0, s.x), get(s, args[1], 0, s.x + 1), 0)
      [] mode = "indirectY" ->
            get(s, get(s, args[1], 0, 0) + s.y, get(s, args[1], 0, 1), 0)

\* What each handler does with the result of a product marked isSetter.
WriteBack(s, mode, args, result) ==
    CASE mode = "accumulator" -> [s EXCEPT !.ac = ToUint8(result)]
      [] mode = "immediate" -> s
      [] mode = "zeropage" -> set(s, args[1], 0, 0, result)
      [] mode = "zeropageX" -> set(s, args[1], 0, s.x, result)
      [] mode = "zeropageY" -> set(s, args[1], 0, s.y, result)
      [] mode = "absolute" -> set(s, args[1], args[2], 0, result)
      [] mode = "absoluteX" -> set(s, args[1], args[2], s.x, result)
      [] mode = "absoluteY" -> set(s, args[1], args[2], s.y, result)
      [] mode = "indirectX" ->
            set(s, get(s, args[1], 0, s.x), get(s, args[1], 0, s.x + 1), 0, result)
      [] mode = "indirectY" ->
            set(s, get(s, args[1], 0, 0), get(s, args[1], 0, 1), s.y, result)

\* A handler of #addOperationWithByte
\* cycle++; product = spec.operation(byte); if there is no product, return;
\* #afterOperationActions(product); if product.isSetter, store product.result.
HandlerWithByte(name, mode, s, args) ==
    LET Operate(t) == OperationWithByte(name, t, OperandByte(t, mode, args))
        Store(t, product) ==
            IF product.isSetter THEN WriteBack(t, mode, args, product.result) ELSE t
        Finish(r) ==
            IF r.p.void THEN r.s ELSE Store(afterOperationActions(r.s, r.p), r.p)
    IN  Finish(Operate(CountCycle(s)))

\* The handler of #addOperation
\* cycle++; product = spec.operation(...args); if there is no product, return;
\* #afterOperationActions(product)
HandlerPlain(code, s, args) ==
    LET Finish(r) == IF r.p.void THEN r.s ELSE afterOperationActions(r.s, r.p)
    IN  Finish(PlainOperation(code, CountCycle(s), args))

\* ops[code](...args), for a code the table holds
CallOps(s, code, args) ==
    LET Handler(op) ==
            IF op.mode = "" THEN HandlerPlain(code, s, args)
            ELSE HandlerWithByte(op.name, op.mode, s, args)
    IN  Handler(Ops[code])

----------------------------------------------------------------------------
(* class Runner *)

\* data[i] of a file
Byte(file, i) == file[i + 1]

\* Runner.run(data).  The last write throws when the body does not fit below
\* the end of memory: run() then ends there, before notify() and before
\* this.data = data.
run(s, file) ==
    LET initialSong == Byte(file, 7) + 15
        s1 == CallOps(s, \hA9, <<initialSong - 1>>)
        s2 == CallOps(s1, \hA2, <<IF And(Byte(file, \h7A), \h80) # 0 THEN 1 ELSE 0>>)
        s3 == fill(s2, \h0000, \h0800, 0)
        s4 == fill(s3, \h6000, \h8000, 0)
        s5 == fill(s4, \h4000, \h4014, 0)
        s6 == write(s5, <<\h0F>>, \h4015)
        s7 == set(s6, \h17, \h40, 0, \h40)
        loadAddress == Or(Byte(file, 8), Shl(Byte(file, 9), 8))
        s8 == CallOps(s7, \h4C, <<Byte(file, 10), Byte(file, 11)>>)
        body == SubSeq(file, \h80 + 1, Len(file))
    IN  [sim |-> write(s8, body, loadAddress), threw |-> WriteThrows(body, loadAddress)]

\* The check of App.onChange: the first four bytes spell "NESM".
IsNesm(file) == SubSeq(file, 1, 4) = <<78, 69, 83, 77>>

\* A step() that skips a byte it has no handler for: it moves to the next
\* byte and notifies.
StepUnknownSkipped(s, isInited, opcode) ==
    [sim |-> incProgramCounter(s), inited |-> isInited, threw |-> FALSE, notify |-> TRUE,
     trampoline |-> FALSE, opcode |-> opcode, args |-> <<>>]

\* step(), when ops[opcode] is undefined: reading its length throws, before
\* anything has been changed.
StepUnknown(s, isInited, opcode) ==
    [sim |-> s, inited |-> isInited, threw |-> TRUE, notify |-> FALSE,
     trampoline |-> FALSE, opcode |-> opcode, args |-> <<>>]

\* The loop of step() that fetches the operands: args and the simulator after it.
RECURSIVE FetchArgs(_, _, _)
FetchArgs(s, n, args) ==
    IF n = 0 THEN [sim |-> s, args |-> args]
    ELSE FetchArgs(incProgramCounter(s), n - 1,
                   Append(args, get(s, And(s.pc, \hFF), Shr(s.pc, 8), 0)))

\* Runner.step(): what it leaves and what it did.
step(s, isInited, file) ==
    LET pc == s.pc
        opcode == get(s, And(pc, \hFF), Shr(pc, 8), 0)
    IN  IF ~Ops[opcode].registered THEN StepUnknown(s, isInited, opcode)
        ELSE LET argsLength == Ops[opcode].length
                 s1 == incProgramCounter(s)
             IN  IF codeToName(opcode) = <<"RTS", "">> /\ ~isInited /\ file # <<>>
                 THEN [sim |-> CallOps(s1, \h4C, <<Byte(file, 12), Byte(file, 13)>>),
                       inited |-> TRUE, threw |-> FALSE, notify |-> TRUE,
                       trampoline |-> TRUE, opcode |-> opcode, args |-> <<>>]
                 ELSE LET f == FetchArgs(s1, argsLength, <<>>)
                      IN  [sim |-> CallOps(f.sim, opcode, f.args),
                           inited |-> isInited, threw |-> FALSE, notify |-> TRUE,
                           trampoline |-> FALSE, opcode |-> opcode, args |-> f.args]

\* notify(): the callbacks of subs, in the order of the Map (the order they
\* were added in, which is the order of their ids).
RECURSIVE InOrder(_)
InOrder(ids) ==
    IF ids = {} THEN <<>>
    ELSE LET m == CHOOSE i \in ids : \A j \in ids : i <= j
         IN  <<m>> \o InOrder(ids \ {m})

\* A notify() that calls the callback added last first.
RECURSIVE notifyNewestFirst(_)
notifyNewestFirst(ids) ==
    IF ids = {} THEN <<>>
    ELSE LET m == CHOOSE i \in ids : \A j \in ids : i >= j
         IN  <<m>> \o notifyNewestFirst(ids \ {m})

notify(ids) == InOrder(ids)

----------------------------------------------------------------------------
(* Bounds and inputs *)

\* The driver stops stepping and loading once the simulator has counted this
\* many instructions.
MaxCycle == 8

\* The host subscribes at most this many callbacks.
MaxSubs == 2

\* An NSF file: the 128-byte header, then the body.
NsfFile(magic, song, load, init, play, mode, body) ==
    [i \in 1 .. 128 |->
        CASE i - 1 \in 0 .. 3 -> magic[i]
          [] i - 1 = 4 -> \h1A
          [] i - 1 = 5 -> 1
          [] i - 1 = 6 -> 1
          [] i - 1 = 7 -> song
          [] i - 1 = 8 -> load % 256
          [] i - 1 = 9 -> load \div 256
          [] i - 1 = 10 -> init % 256
          [] i - 1 = 11 -> init \div 256
          [] i - 1 = 12 -> play % 256
          [] i - 1 = 13 -> play \div 256
          [] i - 1 = \h7A -> mode
          [] OTHER -> 0] \o body

Nesm == <<78, 69, 83, 77>>

\* One file per byte value: the byte, followed by operand bytes, is the whole
\* body, and init and play both point at it.  Loaded at 0xFFFE the body ends
\* at the last byte of memory, so a second operand is fetched from 0x0000.
OperandPairs == {<<\h10, \h02>>, <<\hF0, \h80>>}

OpcodeFiles ==
    {NsfFile(Nesm, 1, \h8000, \h8000, \h8000, 0, <<c, o[1], o[2]>>) :
        c \in 0 .. 255, o \in OperandPairs}
    \cup {NsfFile(Nesm, 1, \hFFFE, \hFFFE, \hFFFE, 0, <<c, o[1]>>) :
        c \in 0 .. 255, o \in OperandPairs}

\* A tune: init stores the song number and returns, play counts a frame and returns.
\*   init: STA $4000 ; LDX #$05 ; RTS        play: INC $10 ; JSR sub ; RTS     sub: RTS
TuneBody ==
    <<\h8D, \h00, \h40, \hA2, \h05, \h60,
      \hE6, \h10, \h20, \h0C, \h80, \h60,
      \h60>>

Songs ==
    {NsfFile(Nesm, 1, \h8000, \h8000, \h8006, 0, TuneBody),
     NsfFile(Nesm, 3, \h8000, \h8000, \h8006, 1, TuneBody),
     NsfFile(<<78, 69, 83, 0>>, 1, \h8000, \h8000, \h8006, 0, TuneBody),
     NsfFile(Nesm, 1, \hFFFE, \hFFFE, \hFFFE, \h80, <<\hEA, \hEA, \h60>>),
     NsfFile(Nesm, 2, \h8000, \h8005, \h8006, \h81, TuneBody),
     NsfFile(Nesm, 1, \h07FE, \h07FE, \h07FE, 0, <<\hEA, \h60, \hEA, \h60>>),
     NsfFile(Nesm, 0, \h4013, \h4016, \h4016, 0, <<\h01, \h02, \h03, \h60, \h05>>)}

----------------------------------------------------------------------------
(* The state after construction, and the driver's actions *)

Call(kind, code, args) == [kind |-> kind, code |-> code, args |-> args, pre |-> sim]

\* new Runner()
InitRunner ==
    /\ sim = NewSimulator
    /\ inited = FALSE
    /\ data = <<>>
    /\ subId = 0
    /\ subs = {}
    /\ notified = <<>>

Init ==
    /\ InitRunner
    /\ last = [kind |-> "new", code |-> 0, args |-> <<>>, pre |-> NewSimulator]
    /\ script = <<>>
    /\ ip = 1

\* App.onChange with a file that is not an NSF file: nothing is called.
\* A load that runs the file although the check fails.
LoadRejectedAfterRun ==
    \E file \in Songs :
        /\ ~IsNesm(file)
        /\ sim' = run(sim, file).sim
        /\ last' = Call("rejected", 0, <<>>)
        /\ notified' = <<>>
        /\ UNCHANGED <<inited, data, subId, subs, script, ip>>

\* App.onChange with a file that does not start with "NESM": it returns
\* before runner.run.
LoadRejected ==
    \E file \in Songs :
        /\ ~IsNesm(file)
        /\ last' = Call("rejected", 0, <<>>)
        /\ notified' = <<>>
        /\ UNCHANGED <<sim, inited, data, subId, subs, script, ip>>

\* App.onChange with an NSF file: runner.run(data)
LoadOf(file, r) ==
    /\ sim' = r.sim
    /\ data' = IF r.threw THEN data ELSE file
    /\ notified' = IF r.threw THEN <<>> ELSE notify(subs)
    /\ last' = Call(IF r.threw THEN "runThrew" ELSE "run", 0, <<>>)
    /\ UNCHANGED <<inited, subId, subs, script, ip>>

Load ==
    \E file \in Songs :
        /\ sim.cycle + 3 <= MaxCycle
        /\ IsNesm(file)
        /\ LoadOf(file, run(sim, file))

\* runner.step(): "fault" when it throws, "trampoline" when it meets the
\* first RTS after a load, "step" otherwise.
StepKind(r) ==
    IF r.threw THEN "fault" ELSE IF r.trampoline THEN "trampoline" ELSE "step"

StepOf(r) ==
    /\ sim' = r.sim
    /\ inited' = r.inited
    /\ notified' = IF r.notify THEN notify(subs) ELSE <<>>
    /\ last' = Call(StepKind(r), r.opcode, r.args)
    /\ UNCHANGED <<data, subId, subs, script, ip>>

Step ==
    /\ sim.cycle < MaxCycle
    /\ StepOf(step(sim, inited, data))

\* runner.onChange(cb)
Subscribe ==
    /\ subId < MaxSubs
    /\ subs' = subs \cup {subId}
    /\ subId' = subId + 1
    /\ UNCHANGED <<sim, inited, data, notified, last, script, ip>>

\* runner.offChange(id)
Unsubscribe ==
    \E id \in subs :
        /\ subs' = subs \ {id}
        /\ UNCHANGED <<sim, inited, data, subId, notified, last, script, ip>>

Next ==
    \/ LoadRejected
    \/ Load
    \/ Step
    \/ Subscribe
    \/ Unsubscribe

Spec == Init /\ [][Next]_vars

----------------------------------------------------------------------------
(* Stepping one instruction: a fresh runner that has loaded one of OpcodeFiles *)

InitStep ==
    \E file \in OpcodeFiles :
        /\ sim = run(NewSimulator, file).sim
        /\ inited = FALSE
        /\ data = file
        /\ subId = 0
        /\ subs = {}
        /\ notified = <<>>
        /\ last = [kind |-> "run", code |-> 0, args |-> <<>>, pre |-> NewSimulator]
        /\ script = <<>>
        /\ ip = 1

NextStep ==
    \/ Step
    \/ Subscribe
    \/ Unsubscribe

SpecStep == InitStep /\ [][NextStep]_vars

\* Files that set the status register and branch:
\*   LDA #sr ; PHA ; PLP ; Bxx o
\* loaded where the branch stays inside memory (0x8000), where the address
\* after it is 0x0000 (0xFFFA) and where a backward branch passes 0x0000
\* (0x0010).
BranchFiles ==
    {NsfFile(Nesm, 1, load, load, load, 0, <<\hA9, sr, \h48, \h28, c, o>>) :
        load \in {\h8000, \hFFFA, \h0010},
        sr \in {\h00, \h01, \h02, \h40, \h80, \hC3},
        c \in {\h10, \h30, \h50, \h70, \h90, \hB0, \hD0, \hF0},
        o \in {\h00, \h01, \h02, \h0F, \h40, \h7F, \h80, \h81, \hC0, \hFE, \hFF}}

InitBranch ==
    \E file \in BranchFiles :
        /\ sim = run(NewSimulator, file).sim
        /\ inited = FALSE
        /\ data = file
        /\ subId = 0
        /\ subs = {}
        /\ notified = <<>>
        /\ last = [kind |-> "run", code |-> 0, args |-> <<>>, pre |-> NewSimulator]
        /\ script = <<>>
        /\ ip = 1

SpecBranch == InitBranch /\ [][Step]_vars

\* Files that call a subroutine once init has returned:
\*   init: RTS        play: LDX #s ; TXS ; JSR init
\* loaded inside memory (0x8000, 0x0200) and where the JSR is the last
\* instruction of memory (0xFFF9), with the stack pointer at both ends and in
\* the middle of the stack page.
JsrFiles ==
    {NsfFile(Nesm, 1, load, load, load + 1, 0,
             <<\h60, \hA2, s, \h9A, \h20, load % 256, load \div 256>>) :
        load \in {\h0200, \h8000, \hFFF9},
        s \in {\h00, \h01, \h02, \h7F, \h80, \hFD, \hFE, \hFF}}

InitJsr ==
    \E file \in JsrFiles :
        /\ sim = run(NewSimulator, file).sim
        /\ inited = FALSE
        /\ data = file
        /\ subId = 0
        /\ subs = {}
        /\ notified = <<>>
        /\ last = [kind |-> "run", code |-> 0, args |-> <<>>, pre |-> NewSimulator]
        /\ script = <<>>
        /\ ip = 1

SpecJsr == InitJsr /\ [][Step]_vars

----------------------------------------------------------------------------
(* Tests of the simulator: a test builds a Simulator and makes a fixed list *)
(* of calls on its public API (write and ops), as src/src/index.spec.ts     *)
(* does.                                                                    *)

\* simulator.ops[code](...args)
OpCall(code, args) == [api |-> "ops", code |-> code, args |-> args]

\* simulator.write(values, offset)
WriteCall(values, offset) == [api |-> "write", code |-> offset, args |-> values]

\* The code the constructor registers for an instruction in a mode.
HasMode(name, mode) ==
    \E c \in 0 .. 255 : Ops[c].registered /\ Ops[c].name = name /\ Ops[c].mode = mode

CodeOf(name, mode) ==
    CHOOSE c \in 0 .. 255 : Ops[c].registered /\ Ops[c].name = name /\ Ops[c].mode = mode

CallOp ==
    /\ ip <= Len(script)
    /\ script[ip].api = "ops"
    /\ sim' = CallOps(sim, script[ip].code, script[ip].args)
    /\ last' = Call("ops", script[ip].code, script[ip].args)
    /\ ip' = ip + 1
    /\ UNCHANGED <<inited, data, subId, subs, notified, script>>

WriteMem ==
    /\ ip <= Len(script)
    /\ script[ip].api = "write"
    /\ sim' = write(sim, script[ip].args, script[ip].code)
    /\ last' = Call("write", script[ip].code, script[ip].args)
    /\ ip' = ip + 1
    /\ UNCHANGED <<inited, data, subId, subs, notified, script>>

NextTest ==
    \/ CallOp
    \/ WriteMem

InitTest(scripts) ==
    /\ InitRunner
    /\ last = [kind |-> "new", code |-> 0, args |-> <<>>, pre |-> NewSimulator]
    /\ script \in scripts
    /\ ip = 1

\* The calls that bring a new simulator to A = a, X = x, Y = y, SR = sr:
\*   LDX #x ; LDY #y ; LDA #sr ; PHA ; LDA #a ; PLP
Setup(a, x, y, sr) ==
    <<OpCall(\hA2, <<x>>), OpCall(\hA0, <<y>>), OpCall(\hA9, <<sr>>), OpCall(\h48, <<>>),
      OpCall(\hA9, <<a>>), OpCall(\h28, <<>>)>>

\* The byte values the tests use as register contents and operands.
ByteSamples == {\h00, \h01, \h0F, \h40, \h7F, \h80, \h81, \hC0, \hFF}

\* One way to give an instruction the operand byte m in each addressing mode:
\* the instruction's arguments, the index registers and the memory it needs.
\* No address computation leaves its page.
Operands(m) ==
    { [mode |-> "immediate", args |-> <<m>>, mem |-> <<>>],
      [mode |-> "zeropage", args |-> <<\h10>>, mem |-> <<WriteCall(<<m>>, \h0010)>>],
      [mode |-> "zeropageX", args |-> <<\h10>>, mem |-> <<WriteCall(<<m>>, \h0014)>>],
      [mode |-> "absolute", args |-> <<\h34, \h02>>, mem |-> <<WriteCall(<<m>>, \h0234)>>],
      [mode |-> "absoluteX", args |-> <<\h30, \h02>>, mem |-> <<WriteCall(<<m>>, \h0234)>>],
      [mode |-> "absoluteY", args |-> <<\h30, \h02>>, mem |-> <<WriteCall(<<m>>, \h0232)>>],
      [mode |-> "indirectX", args |-> <<\h20>>,
       mem |-> <<WriteCall(<<\h34, \h02>>, \h0024), WriteCall(<<m>>, \h0234)>>],
      [mode |-> "indirectY", args |-> <<\h20>>,
       mem |-> <<WriteCall(<<\h30, \h02>>, \h0020), WriteCall(<<m>>, \h0232)>>] }

\* The tests of an instruction on the accumulator: the operand is placed, the
\* registers are set (X = 4 and Y = 2 index the operand), the instruction runs.
AccumulatorTests(names, srs) ==
    UNION { { o.mem \o Setup(a, \h04, \h02, sr) \o <<OpCall(CodeOf(name, o.mode), o.args)>> :
                o \in {q \in Operands(m) : HasMode(name, q.mode)} } :
            name \in names, a \in ByteSamples, m \in ByteSamples, sr \in srs }

\* The tests of CPX and CPY: the compared register holds r, the other one 4.
IndexTests(srs) ==
    UNION { { o.mem \o Setup(\h04, r, \h04, sr) \o <<OpCall(CodeOf("CPX", o.mode), o.args)>> :
                o \in {q \in Operands(m) : HasMode("CPX", q.mode)} }
            \cup
            { o.mem \o Setup(\h04, \h04, r, sr) \o <<OpCall(CodeOf("CPY", o.mode), o.args)>> :
                o \in {q \in Operands(m) : HasMode("CPY", q.mode)} } :
            r \in ByteSamples, m \in ByteSamples, sr \in srs }

\* Store and load back: memory[a] holds another byte; LDA #v ; STA a ; LDA #0 ; LDA a
\* with a in the zero page (STA and LDA zeropage) or anywhere (STA and LDA absolute).
ZeroPageAddresses == {\h00, \h01, \h7F, \h80, \hFF}

AbsoluteAddresses == {\h0000, \h00FF, \h0100, \h1234, \h8000, \hFFFF}

RoundTripTests ==
    { <<WriteCall(<<\hEE>>, a), OpCall(\hA9, <<v>>), OpCall(\h85, <<a>>),
        OpCall(\hA9, <<0>>), OpCall(\hA5, <<a>>)>> :
        v \in 0 .. 255, a \in ZeroPageAddresses }
    \cup
    { <<WriteCall(<<\hEE>>, a), OpCall(\hA9, <<v>>), OpCall(\h8D, <<a % 256, a \div 256>>),
        OpCall(\hA9, <<0>>), OpCall(\hAD, <<a % 256, a \div 256>>)>> :
        v \in 0 .. 255, a \in AbsoluteAddresses }

SpecRoundTrip ==
    InitTest(RoundTripTests) /\ [][NextTest]_vars

\* ADC and SBC, with the carry and the decimal flag clear and set.
SpecArith ==
    InitTest(AccumulatorTests({"ADC", "SBC"}, {\h00, \h01, \h08, \h49})) /\ [][NextTest]_vars

\* CMP, CPX and CPY
CompareSr == {\h00, \h01, \h82, \hC3}

SpecCompare ==
    InitTest(AccumulatorTests({"CMP"}, CompareSr) \cup IndexTests(CompareSr)) /\ [][NextTest]_vars

\* AND and EOR, with the carry and the overflow flag clear and set.
SpecLogic ==
    InitTest(AccumulatorTests({"AND", "EOR"}, {\h00, \h01, \h40, \hC3})) /\ [][NextTest]_vars

\* ORA and BIT, with every flag BIT may touch clear and set.
SpecBits ==
    InitTest(AccumulatorTests({"ORA", "BIT"}, {\h00, \h0D, \h42, \hC3})) /\ [][NextTest]_vars

\* INC and DEC on a memory byte v, INX, INY, DEX and DEY on a register
\* holding v, for every byte v, with the carry clear and set.
StepSr == {\h00, \hC3}

IncDecTests ==
    UNION { { o.mem \o Setup(\h55, \h04, \h02, sr) \o <<OpCall(CodeOf(name, o.mode), o.args)>> :
                o \in {q \in Operands(v) : HasMode(name, q.mode)} } :
            name \in {"INC", "DEC"}, v \in 0 .. 255, sr \in StepSr }
    \cup
    { <<WriteCall(<<v>>, \h0010)>> \o Setup(\h55, v, v, sr) \o <<OpCall(code, <<>>)>> :
        code \in {\hE8, \hC8, \hCA, \h88}, v \in 0 .. 255, sr \in StepSr }

SpecIncDec ==
    InitTest(IncDecTests) /\ [][NextTest]_vars

\* The transfers and PLA: the stack pointer is set (LDX #s ; TXS), a byte v is
\* pushed (LDA #v ; PHA), the registers are set, the instruction runs.
TransferCodes == {\hAA, \hA8, \hBA, \h8A, \h9A, \h98, \h68}

TransferTests ==
    { <<WriteCall(<<v>>, \h0010), OpCall(\hA2, <<s>>), OpCall(\h9A, <<>>),
        OpCall(\hA9, <<v>>), OpCall(\h48, <<>>)>>
      \o Setup(a, x, y, sr) \o <<OpCall(code, <<>>)>> :
        code \in TransferCodes, s \in {\h00, \h81, \hFF}, v \in {\h00, \h42, \h80},
        a \in {\h00, \h40, \h80, \hFF}, x \in {\h00, \h7F, \h80}, y \in {\h00, \h01, \hFE},
        sr \in StepSr }

SpecTransfer ==
    InitTest(TransferTests) /\ [][NextTest]_vars

\* ASL, LSR, ROL and ROR of every byte m, held in A (accumulator mode) or in
\* memory, with the carry clear and set.
ShiftTests ==
    UNION { { o.mem \o Setup(\h55, \h04, \h02, sr) \o <<OpCall(CodeOf(name, o.mode), o.args)>> :
                o \in {q \in Operands(m) : HasMode(name, q.mode)} } :
            name \in {"ASL", "LSR", "ROL", "ROR"}, m \in 0 .. 255, sr \in StepSr }
    \cup
    { <<WriteCall(<<m>>, \h0010)>> \o Setup(m, \h04, \h02, sr)
      \o <<OpCall(CodeOf(name, "accumulator"), <<>>)>> :
        name \in {"ASL", "LSR", "ROL", "ROR"}, m \in 0 .. 255, sr \in StepSr }

SpecShift == InitTest(ShiftTests) /\ [][NextTest]_vars

\* PHP and BRK with every value of the status register.
StatusTests ==
    { Setup(\h55, \h04, \h02, sr) \o <<OpCall(code, <<>>)>> : sr \in 0 .. 255, code \in {\h08, \h00} }

SpecStatus == InitTest(StatusTests) /\ [][CallOp]_vars

\* JMP absolute and JMP (indirect) with the operand ll, hh: the bytes 0x33,
\* 0x11 and 0x22 are written to the first address of page hh, to the operand
\* address a and to (a + 1) mod 65536, in this order.
JumpTests ==
    { <<WriteCall(<<\h33>>, 256 * hh), WriteCall(<<\h11>>, 256 * hh + ll),
        WriteCall(<<\h22>>, (256 * hh + ll + 1) % 65536), OpCall(code, <<ll, hh>>)>> :
        ll \in {\h00, \h42, \hFE, \hFF}, hh \in {\h00, \h01, \h02, \h7F, \h80, \hFF},
        code \in {\h4C, \h6C} }

SpecJump == InitTest(JumpTests) /\ [][NextTest]_vars

\* Loads and stores through the indexed addressing modes.  A test marks the
\* byte at the 6502's effective address with 0x11 (and, in the indirect
\* modes, places the pointer lo, hi first), sets A = 0xAB and the index
\* registers, and runs one load or store.  In the zero-page modes the operand
\* and the index run over values whose sum passes 0xFF; in the absolute modes
\* and (indirect),Y the base lo, hi runs over even and odd pages with
\* lo + index passing 0xFF.
IndexedTests ==
    LET Test(prep, x, y, code, args) == prep \o Setup(\hAB, x, y, 0) \o <<OpCall(code, args)>>
        Mark(a) == <<WriteCall(<<\h11>>, a % 65536)>>
        Pointer(p, lo, hi) == <<WriteCall(<<lo>>, p % 256), WriteCall(<<hi>>, (p + 1) % 256)>>
        Zp == {\h00, \h10, \h80, \hF0, \hFF}
        Index == {\h00, \h01, \h10, \h80, \hFF}
        Lo == {\h00, \h80, \hFF}
        Hi == {\h02, \h03, \hFF}
    IN  { Test(Mark((zp + i) % 256), i, \h00, c, <<zp>>) :
            zp \in Zp, i \in Index, c \in {\hB5, \h95} }
        \cup { Test(Mark((zp + i) % 256), \hCD, i, c, <<zp>>) :
            zp \in Zp, i \in Index, c \in {\hB6, \h96} }
        \cup { Test(Pointer(zp + i, \h34, \h02) \o Mark(\h0234), i, \h00, c, <<zp>>) :
            zp \in Zp, i \in Index, c \in {\hA1, \h81} }
        \cup { Test(Mark(256 * hi + lo + i), i, \h00, c, <<lo, hi>>) :
            lo \in Lo, hi \in Hi, i \in Index, c \in {\hBD, \h9D} }
        \cup { Test(Mark(256 * hi + lo + i), \h00, i, c, <<lo, hi>>) :
            lo \in Lo, hi \in Hi, i \in Index, c \in {\hB9, \h99} }
        \cup { Test(Pointer(zp, lo, hi) \o Mark(256 * hi + lo + i), \h00, i, c, <<zp>>) :
            zp \in {\h20, \hFF}, lo \in Lo, hi \in Hi, i \in Index, c \in {\hB1, \h91} }

SpecIndexed == InitTest(IndexedTests) /\ [][NextTest]_vars

\* A store and a load through the same indexed operand:
\*   LDY #y ; LDA #v ; STA (zp),Y ; LDA #~v ; LDA (zp),Y   with the pointer
\*   lo, hi placed at zp and (zp + 1) mod 256, and
\*   LDX #x ; LDA #v ; STA abs,X ; LDA #~v ; LDA abs,X.
StoreLoadTests ==
    { <<WriteCall(<<lo>>, zp), WriteCall(<<hi>>, (zp + 1) % 256),
        OpCall(\hA0, <<i>>), OpCall(\hA9, <<v>>), OpCall(\h91, <<zp>>),
        OpCall(\hA9, <<255 - v>>), OpCall(\hB1, <<zp>>)>> :
        zp \in {\h00, \h20, \h80, \hFE, \hFF}, lo \in {\h00, \h80, \hFF},
        hi \in {\h00, \h02, \h03, \hFF}, i \in {\h00, \h01, \h80, \hFF}, v \in ByteSamples }
    \cup
    { <<OpCall(\hA2, <<i>>), OpCall(\hA9, <<v>>), OpCall(\h9D, <<lo, hi>>),
        OpCall(\hA9, <<255 - v>>), OpCall(\hBD, <<lo, hi>>)>> :
        lo \in {\h00, \h80, \hFF}, hi \in {\h00, \h02, \h03, \hFF},
        i \in {\h00, \h01, \h80, \hFF}, v \in ByteSamples }

SpecStoreLoad == InitTest(StoreLoadTests) /\ [][NextTest]_vars

\* simulator.pushStackValue(val) and simulator.popStackValue(); the history
\* keeps the byte a pop returns.
PushCall ==
    /\ ip <= Len(script)
    /\ script[ip].api = "push"
    /\ sim' = pushStackValue(sim, script[ip].args[1])
    /\ last' = Call("push", 0, script[ip].args)
    /\ ip' = ip + 1
    /\ UNCHANGED <<inited, data, subId, subs, notified, script>>

PopCall ==
    /\ ip <= Len(script)
    /\ script[ip].api = "pop"
    /\ sim' = PopState(sim)
    /\ last' = Call("pop", PopValue(sim), <<>>)
    /\ ip' = ip + 1
    /\ UNCHANGED <<inited, data, subId, subs, notified, script>>

NextStack ==
    \/ CallOp
    \/ PushCall
    \/ PopCall

\* The longest sequence of bytes pushed from every starting SP.
MaxPush == 3

\* LDX #sp ; TXS ; push b1 .. bn ; pop n times: every starting SP with up to
\* MaxPush bytes, and 256 different bytes pushed from SP = 0x80 and from
\* SP = 0xFF.
StackTests ==
    LET StackTest(sp, bytes) ==
            <<OpCall(\hA2, <<sp>>), OpCall(\h9A, <<>>)>>
            \o [i \in 1 .. Len(bytes) |-> [api |-> "push", code |-> 0, args |-> <<bytes[i]>>]]
            \o [i \in 1 .. Len(bytes) |-> [api |-> "pop", code |-> 0, args |-> <<>>]]
    IN  { StackTest(sp, bytes) :
            sp \in 0 .. 255, bytes \in UNION { [1 .. n -> {\h5A, \hC3}] : n \in 1 .. MaxPush } }
        \cup { StackTest(sp, [i \in 1 .. 256 |-> (7 * i) % 256]) : sp \in {\h80, \hFF} }

SpecStack == InitTest(StackTests) /\ [][NextStack]_vars

----------------------------------------------------------------------------
(* The 6502's rules, as the properties below state them *)

\* Bit i of a byte, and the flags of the status register.
Bit(v, i) == (v \div (2 ^ i)) % 2

FlagC(s) == Bit(s.sr, 0)

FlagZ(s) == Bit(s.sr, 1)

FlagI(s) == Bit(s.sr, 2)

FlagD(s) == Bit(s.sr, 3)

FlagV(s) == Bit(s.sr, 6)

FlagN(s) == Bit(s.sr, 7)

\* a AND b and a XOR b of two bytes, bit by bit.
ByteAnd(a, b) ==
    LET Sum[i \in 0 .. 8] ==
            IF i = 8 THEN 0 ELSE Bit(a, i) * Bit(b, i) * (2 ^ i) + Sum[i + 1]
    IN  Sum[0]

ByteXor(a, b) ==
    LET Sum[i \in 0 .. 8] ==
            IF i = 8 THEN 0 ELSE ((Bit(a, i) + Bit(b, i)) % 2) * (2 ^ i) + Sum[i + 1]
    IN  Sum[0]

ByteOr(a, b) ==
    LET Sum[i \in 0 .. 8] ==
            IF i = 8 THEN 0
            ELSE (IF Bit(a, i) + Bit(b, i) > 0 THEN 1 ELSE 0) * (2 ^ i) + Sum[i + 1]
    IN  Sum[0]

\* The number of operand bytes of an addressing mode ("" is implied).
OperandCount(mode) ==
    CASE mode \in {"", "accumulator"} -> 0
      [] mode \in {"immediate", "zeropage", "zeropageX", "zeropageY",
                   "indirectX", "indirectY"} -> 1
      [] mode \in {"absolute", "absoluteX", "absoluteY"} -> 2

\* The address of the operand of a memory addressing mode.
OperandAddress(s, mode, args) ==
    CASE mode = "zeropage" -> args[1]
      [] mode = "zeropageX" -> (args[1] + s.x) % 256
      [] mode = "zeropageY" -> (args[1] + s.y) % 256
      [] mode = "absolute" -> args[1] + 256 * args[2]
      [] mode = "absoluteX" -> (args[1] + 256 * args[2] + s.x) % 65536
      [] mode = "absoluteY" -> (args[1] + 256 * args[2] + s.y) % 65536
      [] mode = "indirectX" ->
            MemRead(s.mem, (args[1] + s.x) % 256)
            + 256 * MemRead(s.mem, (args[1] + s.x + 1) % 256)
      [] mode = "indirectY" ->
            (MemRead(s.mem, args[1]) + 256 * MemRead(s.mem, (args[1] + 1) % 256) + s.y) % 65536

InMemory(mode) == mode \notin {"", "accumulator", "immediate"}

\* The operand byte M of an instruction.
OperandOf(s, mode, args) ==
    IF mode = "immediate" THEN args[1] ELSE MemRead(s.mem, OperandAddress(s, mode, args))

\* The instructions that set the program counter themselves.
ControlFlow ==
    {"JMP", "JSR", "RTS", "RTI", "BRK", "BCC", "BCS", "BEQ", "BMI", "BNE", "BPL", "BVC", "BVS"}

\* The byte step() finds at the program counter it starts from.
Fetched == MemRead(last.pre.mem, last.pre.pc)

\* The latest call was ops[...] of one of these instructions; its mode and
\* its operand byte.
Ran(names) == last.kind = "ops" /\ Ops[last.code].name \in names

LastMode == Ops[last.code].mode

LastOperand == OperandOf(last.pre, LastMode, last.args)

SameRegisters(s, t) ==
    /\ s.pc = t.pc /\ s.ac = t.ac /\ s.x = t.x /\ s.y = t.y /\ s.sp = t.sp /\ s.sr = t.sr

----------------------------------------------------------------------------
(* C1 *)

\* C1: after a step() on a registered opcode that is not a jump, call, return,
\* branch or BRK, the program counter is (PC_before + 1 + n) mod 65536, n the
\* operand byte count of the opcode's addressing mode, and the operands handed
\* to the operation are the bytes at PC_before+1 .. PC_before+n (mod 65536).
C1_ProgramCounter ==
    (last.kind = "step" /\ Ops[Fetched].name \notin ControlFlow) =>
        LET n == OperandCount(Ops[Fetched].mode)
        IN  /\ sim.pc = (last.pre.pc + 1 + n) % 65536
            /\ last.args = [i \in 1 .. n |-> MemRead(last.pre.mem, (last.pre.pc + i) % 65536)]

\* A two-operand instruction fetched at 0xFFFE: its second operand is the byte
\* at 0x0000 and the program counter wraps to 0x0001.
C1_Witness ==
    /\ last.kind = "step"
    /\ Ops[Fetched].name \notin ControlFlow
    /\ Ops[Fetched].mode = "absoluteX"
    /\ last.pre.pc = \hFFFE
    /\ sim.pc = 1
    /\ Len(last.args) = 2

----------------------------------------------------------------------------
(* C2 *)

\* C2: Simulator.cycle grows by exactly 1 on every step() that completes, the
\* step that replaces the first RTS after a load by the JMP to play included,
\* and it never decreases.
C2_CycleCounts ==
    /\ last.kind \in {"step", "trampoline"} => sim.cycle = last.pre.cycle + 1
    /\ sim.cycle >= last.pre.cycle

\* The step that met the first RTS after the load has counted one instruction.
C2_Witness ==
    /\ last.kind = "trampoline"
    /\ Ops[Fetched].name = "RTS"
    /\ sim.cycle = last.pre.cycle + 1

----------------------------------------------------------------------------
(* C3 *)

\* C3: a step() that fetches a byte the dispatch table has no entry for ends
\* in a fault: it changes no register, no memory byte and not the instruction
\* counter, and it notifies no subscriber.
C3_UnknownOpcode ==
    (last.kind \in {"step", "trampoline", "fault"} /\ ~Ops[Fetched].registered) =>
        /\ last.kind = "fault"
        /\ sim = last.pre
        /\ notified = <<>>

\* A step() has faulted on an unregistered byte while a callback was subscribed.
C3_Witness ==
    /\ last.kind = "fault"
    /\ ~Ops[Fetched].registered
    /\ subs # {}
    /\ sim = last.pre

----------------------------------------------------------------------------
(* C4 *)

\* The byte v and the address a of a store-and-load-back test.
RoundTripValue == script[2].args[1]

RoundTripAddress == script[1].code

\* C4: LDA #v ; STA a ; LDA #0 ; LDA a, for a zero-page or an absolute address
\* a, ends with A = v, memory[a] = v, N = bit 7 of v and Z set iff v = 0; and
\* STA changes no register and no flag.
C4_RoundTrip ==
    /\ ip = Len(script) + 1 =>
            /\ sim.ac = RoundTripValue
            /\ MemRead(sim.mem, RoundTripAddress) = RoundTripValue
            /\ FlagN(sim) = Bit(RoundTripValue, 7)
            /\ (FlagZ(sim) = 1) <=> (RoundTripValue = 0)
    /\ Ran({"STA"}) => SameRegisters(sim, last.pre)

\* The test with v = 0x80 and a = 0xFFFF has run to its end.
C4_Witness ==
    /\ ip = Len(script) + 1
    /\ RoundTripValue = \h80
    /\ RoundTripAddress = \hFFFF
    /\ sim.ac = \h80
    /\ FlagN(sim) = 1

----------------------------------------------------------------------------
(* C5 *)

\* C5: ADC leaves A = (A + M + C) mod 256, sets the carry flag iff
\* A + M + C > 255, N to bit 7 of the new A and Z iff the new A is 0, whatever
\* the decimal flag is.
C5_Adc ==
    Ran({"ADC"}) =>
        LET sum == last.pre.ac + LastOperand + FlagC(last.pre)
        IN  /\ sim.ac = sum % 256
            /\ (FlagC(sim) = 1) <=> (sum > 255)
            /\ FlagN(sim) = Bit(sim.ac, 7)
            /\ (FlagZ(sim) = 1) <=> (sim.ac = 0)

\* 0xFF + 0x00 + 1 with the decimal flag set, the operand in memory: A = 0,
\* carry and zero set.
C5_Witness ==
    /\ Ran({"ADC"})
    /\ InMemory(LastMode)
    /\ last.pre.ac = \hFF /\ LastOperand = 0 /\ FlagC(last.pre) = 1 /\ FlagD(last.pre) = 1
    /\ sim.ac = 0 /\ FlagC(sim) = 1 /\ FlagZ(sim) = 1

----------------------------------------------------------------------------
(* C6 *)

\* C6: ADC sets V iff A and M have the same sign bit and the 8-bit result has
\* a different sign bit from A, and clears V otherwise.
C6_AdcOverflow ==
    Ran({"ADC"}) =>
        LET sum == last.pre.ac + LastOperand + FlagC(last.pre)
        IN  (FlagV(sim) = 1) <=>
                /\ Bit(last.pre.ac, 7) = Bit(LastOperand, 7)
                /\ Bit(sum % 256, 7) # Bit(last.pre.ac, 7)

----------------------------------------------------------------------------
(* C7 *)

\* C7: SBC, in every addressing mode, leaves A = (A - M - (1 - C)) mod 256,
\* sets carry iff A - M - (1 - C) >= 0, sets V iff A and M differ in sign and
\* the result differs in sign from A, and leaves the operand's memory byte as
\* it was.
C7_Sbc ==
    Ran({"SBC"}) =>
        LET raw == last.pre.ac - LastOperand - (1 - FlagC(last.pre))
        IN  /\ sim.ac = raw % 256
            /\ (FlagC(sim) = 1) <=> (raw >= 0)
            /\ (FlagV(sim) = 1) <=>
                    /\ Bit(last.pre.ac, 7) # Bit(LastOperand, 7)
                    /\ Bit(raw % 256, 7) # Bit(last.pre.ac, 7)
            /\ InMemory(LastMode) =>
                    MemRead(sim.mem, OperandAddress(last.pre, LastMode, last.args)) = LastOperand

----------------------------------------------------------------------------
(* C8 and C9 *)

\* The register a compare instruction compares.
Compared(s) ==
    CASE Ops[last.code].name = "CMP" -> s.ac
      [] Ops[last.code].name = "CPX" -> s.x
      [] Ops[last.code].name = "CPY" -> s.y

\* C8: CMP, CPX and CPY, in every addressing mode, leave the compared register
\* (A, X or Y) equal to its value before the instruction.
C8_CompareKeepsRegister ==
    Ran({"CMP", "CPX", "CPY"}) => Compared(sim) = Compared(last.pre)

\* C9: CMP, CPX and CPY set the carry flag iff R >= M, Z iff R = M, and N to
\* bit 7 of (R - M) mod 256.
C9_CompareFlags ==
    Ran({"CMP", "CPX", "CPY"}) =>
        LET R == Compared(last.pre)
        IN  /\ (FlagC(sim) = 1) <=> (R >= LastOperand)
            /\ (FlagZ(sim) = 1) <=> (R = LastOperand)
            /\ FlagN(sim) = Bit((R - LastOperand) % 256, 7)

----------------------------------------------------------------------------
(* C10 *)

\* C10: AND leaves A = A & M and EOR leaves A = A xor M, with N = bit 7 of the
\* new A and Z set iff the new A is 0; C and V are unchanged and, in the
\* memory addressing modes, so is the operand's memory byte.
C10_Logic ==
    Ran({"AND", "EOR"}) =>
        /\ Ran({"AND"}) => sim.ac = ByteAnd(last.pre.ac, LastOperand)
        /\ Ran({"EOR"}) => sim.ac = ByteXor(last.pre.ac, LastOperand)
        /\ FlagN(sim) = Bit(sim.ac, 7)
        /\ (FlagZ(sim) = 1) <=> (sim.ac = 0)
        /\ FlagC(sim) = FlagC(last.pre)
        /\ FlagV(sim) = FlagV(last.pre)
        /\ InMemory(LastMode) =>
                MemRead(sim.mem, OperandAddress(last.pre, LastMode, last.args)) = LastOperand

\* 0xC0 AND 0x81 through (indirect),Y with carry and overflow set: A = 0x80, N
\* set, and the carry and the overflow flag are still set.
C10_Witness ==
    /\ Ran({"AND"})
    /\ LastMode = "indirectY"
    /\ last.pre.ac = \hC0 /\ LastOperand = \h81
    /\ FlagC(last.pre) = 1 /\ FlagV(last.pre) = 1
    /\ sim.ac = \h80 /\ FlagN(sim) = 1 /\ FlagC(sim) = 1 /\ FlagV(sim) = 1

----------------------------------------------------------------------------
(* C11 *)

\* C11: ORA, in immediate and in every memory mode, leaves A = A | M with N
\* and Z set from the new A, and leaves the operand's memory byte as it was.
C11_Ora ==
    Ran({"ORA"}) =>
        /\ sim.ac = ByteOr(last.pre.ac, LastOperand)
        /\ FlagN(sim) = Bit(sim.ac, 7)
        /\ (FlagZ(sim) = 1) <=> (sim.ac = 0)
        /\ InMemory(LastMode) =>
                MemRead(sim.mem, OperandAddress(last.pre, LastMode, last.args)) = LastOperand

----------------------------------------------------------------------------
(* C12 *)

\* C12: BIT sets Z iff (A & M) = 0, N to bit 7 of M and V to bit 6 of M, and
\* changes neither A nor memory nor the C, D and I flags.
C12_Bit ==
    Ran({"BIT"}) =>
        /\ (FlagZ(sim) = 1) <=> (ByteAnd(last.pre.ac, LastOperand) = 0)
        /\ FlagN(sim) = Bit(LastOperand, 7)
        /\ FlagV(sim) = Bit(LastOperand, 6)
        /\ sim.ac = last.pre.ac
        /\ sim.mem = last.pre.mem
        /\ FlagC(sim) = FlagC(last.pre)
        /\ FlagD(sim) = FlagD(last.pre)
        /\ FlagI(sim) = FlagI(last.pre)

----------------------------------------------------------------------------
(* C13 *)

\* What an increment or a decrement works on: a memory byte (INC, DEC), X
\* (INX, DEX) or Y (INY, DEY); Target(s) is its value in s, for the latest call.
Target(s) ==
    CASE Ops[last.code].name \in {"INC", "DEC"} ->
            MemRead(s.mem, OperandAddress(last.pre, LastMode, last.args))
      [] Ops[last.code].name \in {"INX", "DEX"} -> s.x
      [] Ops[last.code].name \in {"INY", "DEY"} -> s.y

\* C13: INC and DEC on a memory byte and INX, INY, DEX and DEY on a register
\* leave the target equal to (v + 1) mod 256 or (v - 1) mod 256, set N to bit 7
\* of the new value and Z iff the new value is 0 (0xFF + 1 = 0x00 and
\* 0x00 - 1 = 0xFF included), and leave the carry flag as it was.
C13_IncDec ==
    Ran({"INC", "DEC", "INX", "INY", "DEX", "DEY"}) =>
        /\ Ran({"INC", "INX", "INY"}) => Target(sim) = (Target(last.pre) + 1) % 256
        /\ Ran({"DEC", "DEX", "DEY"}) => Target(sim) = (Target(last.pre) - 1) % 256
        /\ FlagN(sim) = Bit(Target(sim), 7)
        /\ (FlagZ(sim) = 1) <=> (Target(sim) = 0)
        /\ FlagC(sim) = FlagC(last.pre)

----------------------------------------------------------------------------
(* C14 *)

\* The byte a pop reads: the one above the stack pointer, in page 1.
TopOfStack(s) == MemRead(s.mem, 256 + ((s.sp + 1) % 256))

\* The value a transfer or PLA moves, and the register it lands in.
Moved ==
    CASE Ops[last.code].name \in {"TAX", "TAY"} -> last.pre.ac
      [] Ops[last.code].name = "TSX" -> last.pre.sp
      [] Ops[last.code].name = "TXA" -> last.pre.x
      [] Ops[last.code].name = "TYA" -> last.pre.y
      [] Ops[last.code].name = "PLA" -> TopOfStack(last.pre)

Destination ==
    CASE Ops[last.code].name \in {"TAX", "TSX"} -> sim.x
      [] Ops[last.code].name = "TAY" -> sim.y
      [] Ops[last.code].name \in {"TXA", "TYA", "PLA"} -> sim.ac

\* C14: after TAX, TAY, TSX, TXA, TYA or PLA the destination register equals
\* the source value (the popped byte for PLA), N is bit 7 of that value and Z
\* is set iff it is 0; TXS sets SP to X and changes no flag.
C14_Transfers ==
    /\ Ran({"TAX", "TAY", "TSX", "TXA", "TYA", "PLA"}) =>
            /\ Destination = Moved
            /\ FlagN(sim) = Bit(Moved, 7)
            /\ (FlagZ(sim) = 1) <=> (Moved = 0)
    /\ Ran({"TXS"}) => sim.sp = last.pre.x /\ sim.sr = last.pre.sr

----------------------------------------------------------------------------
(* C15 *)

\* The byte a shift or a rotation works on, before and after it: A in
\* accumulator mode, the byte at the effective address in the memory modes.
Shifted(s) ==
    IF LastMode = "accumulator" THEN s.ac
    ELSE MemRead(s.mem, OperandAddress(last.pre, LastMode, last.args))

\* C15: ASL yields (M << 1) mod 256 with C = old bit 7; LSR yields M >> 1 with
\* C = old bit 0; ROL yields ((M << 1) | oldC) mod 256 with C = old bit 7; ROR
\* yields (oldC << 7) | (M >> 1) with C = old bit 0; N and Z are set from the
\* 8-bit result, which is written to A in accumulator mode and to the
\* effective address in the memory modes.
C15_Shifts ==
    Ran({"ASL", "LSR", "ROL", "ROR"}) =>
        LET M == Shifted(last.pre)
            oldC == FlagC(last.pre)
        IN  /\ Ran({"ASL"}) => Shifted(sim) = (2 * M) % 256 /\ FlagC(sim) = Bit(M, 7)
            /\ Ran({"LSR"}) => Shifted(sim) = M \div 2 /\ FlagC(sim) = Bit(M, 0)
            /\ Ran({"ROL"}) => Shifted(sim) = (2 * M + oldC) % 256 /\ FlagC(sim) = Bit(M, 7)
            /\ Ran({"ROR"}) => Shifted(sim) = 128 * oldC + (M \div 2) /\ FlagC(sim) = Bit(M, 0)
            /\ FlagN(sim) = Bit(Shifted(sim), 7)
            /\ (FlagZ(sim) = 1) <=> (Shifted(sim) = 0)

\* ROL of 0x80 in memory (absolute,X) with the carry set: the byte becomes
\* 0x01 and the carry stays set.
C15_Witness ==
    /\ Ran({"ROL"})
    /\ LastMode = "absoluteX"
    /\ Shifted(last.pre) = \h80 /\ FlagC(last.pre) = 1
    /\ Shifted(sim) = \h01 /\ FlagC(sim) = 1 /\ FlagN(sim) = 0 /\ FlagZ(sim) = 0

----------------------------------------------------------------------------
(* C16 *)

\* The number of bytes the running test pushes, and the position in the
\* script of the call that ran last.
PushCount == (Len(script) - 2) \div 2

Done == ip - 1

\* C16: pushing b1..bn (n <= 256) and popping n times returns bn..b1 and
\* restores SP; SP wraps modulo 256, and a push writes and a pop reads only in
\* 0x0100..0x01FF.
C16_Stack ==
    /\ last.kind = "push" =>
        /\ sim.sp = (last.pre.sp - 1) % 256
        /\ last.pre.sp \in 0 .. 255
        /\ sim.mem = MemStore(last.pre.mem, \h0100 + last.pre.sp, last.args[1])
    /\ last.kind = "pop" =>
        /\ sim.sp = (last.pre.sp + 1) % 256
        /\ sim.mem = last.pre.mem
        /\ last.code = MemRead(last.pre.mem, \h0100 + sim.sp)
        /\ last.code = script[2 + PushCount - (Done - 2 - PushCount) + 1].args[1]
    /\ ip > Len(script) => sim.sp = script[1].args[1]

\* 256 bytes pushed from SP = 0x80 and popped again: the last pop returns the
\* first byte pushed, 7, and SP is 0x80 again; the stack pointer went through
\* 0x00 and 0xFF on the way.
C16_Witness ==
    /\ PushCount = 256
    /\ ip > Len(script)
    /\ last.kind = "pop" /\ last.code = 7
    /\ sim.sp = \h80
    /\ MemRead(sim.mem, \h0100) = (7 * 129) % 256
    /\ MemRead(sim.mem, \h01FF) = (7 * 130) % 256

----------------------------------------------------------------------------
(* C17 *)

\* C17: the copy of SR that PHP and BRK push has bit 4 (B) set, whatever bit 4
\* of the live status register is, and its other seven bits are those of the
\* live SR (for BRK the I bit may already be set when SR is pushed).
C17_PushedStatus ==
    Ran({"PHP", "BRK"}) =>
        /\ Bit(TopOfStack(sim), 4) = 1
        /\ \A b \in {0, 1, 3, 5, 6, 7} : Bit(TopOfStack(sim), b) = Bit(last.pre.sr, b)
        /\ Bit(TopOfStack(sim), 2) \in {Bit(last.pre.sr, 2), Bit(sim.sr, 2)}

----------------------------------------------------------------------------
(* C18 *)

\* The byte at address a (mod 65536) and the byte at offset i above the stack
\* pointer sp (mod 256) in the stack page.
ByteAt(s, a) == MemRead(s.mem, a % 65536)

StackAt(s, sp, i) == MemRead(s.mem, \h0100 + ((sp + i) % 256))

\* The instruction a step() ran, other than the jump of the first RTS.
Stepped(name) == last.kind = "step" /\ Ops[Fetched].name = name

\* C18: a step executing JSR at address p pushes the high byte then the low
\* byte of p + 2 and sets PC to the operand target; a step executing RTS pops
\* low then high and sets PC to (popped word + 1) mod 65536.
C18_JsrRts ==
    LET p == last.pre.pc
        sp == last.pre.sp
    IN  /\ Stepped("JSR") =>
              /\ StackAt(sim, sp, 0) = ((p + 2) % 65536) \div 256
              /\ StackAt(sim, sp, -1) = ((p + 2) % 65536) % 256
              /\ sim.sp = (sp - 2) % 256
              /\ sim.pc = ByteAt(last.pre, p + 1) + 256 * ByteAt(last.pre, p + 2)
        /\ Stepped("RTS") =>
              /\ sim.pc = (StackAt(last.pre, sp, 1) + 256 * StackAt(last.pre, sp, 2) + 1) % 65536
              /\ sim.sp = (sp + 2) % 256

----------------------------------------------------------------------------
(* C19 *)

\* C19: opcode 0x00 is in the dispatch table, and a step executing BRK at
\* address p pushes the high byte then the low byte of (p + 2) mod 65536, then
\* SR (compared here without its B and I bits), sets the I flag, sets PC to
\* memory[0xFFFE] | memory[0xFFFF] << 8 and decreases SP by 3 modulo 256.
C19_Brk ==
    /\ Ops[0].registered /\ Ops[0].name = "BRK"
    /\ Stepped("BRK") =>
        LET p == last.pre.pc
            sp == last.pre.sp
        IN  /\ Fetched = 0
            /\ StackAt(sim, sp, 0) = ((p + 2) % 65536) \div 256
            /\ StackAt(sim, sp, -1) = ((p + 2) % 65536) % 256
            /\ \A b \in {0, 1, 3, 5, 6, 7} : Bit(StackAt(sim, sp, -2), b) = Bit(last.pre.sr, b)
            /\ FlagI(sim) = 1
            /\ sim.pc = ByteAt(last.pre, \hFFFE) + 256 * ByteAt(last.pre, \hFFFF)
            /\ sim.sp = (sp - 3) % 256

----------------------------------------------------------------------------
(* C20 *)

\* The condition each branch instruction tests.
Matches(name, s) ==
    CASE name = "BCC" -> FlagC(s) = 0
      [] name = "BCS" -> FlagC(s) = 1
      [] name = "BNE" -> FlagZ(s) = 0
      [] name = "BEQ" -> FlagZ(s) = 1
      [] name = "BPL" -> FlagN(s) = 0
      [] name = "BMI" -> FlagN(s) = 1
      [] name = "BVC" -> FlagV(s) = 0
      [] name = "BVS" -> FlagV(s) = 1

\* C20: a step executing a branch at address p with operand byte o sets PC to
\* (p + 2 + d) mod 65536 when the tested flag matches, d being o read as a
\* signed 8-bit value, and to (p + 2) mod 65536 when it does not; no register,
\* flag or memory byte other than PC changes.
C20_Branches ==
    (last.kind = "step"
     /\ Ops[Fetched].name \in {"BCC", "BCS", "BNE", "BEQ", "BPL", "BMI", "BVC", "BVS"}) =>
        LET p == last.pre.pc
            o == ByteAt(last.pre, p + 1)
            d == IF o >= 128 THEN o - 256 ELSE o
        IN  /\ sim.pc = IF Matches(Ops[Fetched].name, last.pre)
                        THEN (p + 2 + d) % 65536
                        ELSE (p + 2) % 65536
            /\ sim.ac = last.pre.ac /\ sim.x = last.pre.x /\ sim.y = last.pre.y
            /\ sim.sp = last.pre.sp /\ sim.sr = last.pre.sr
            /\ sim.mem = last.pre.mem

\* BEQ at 0x0014 with operand 0x80 and Z set: the branch passes address 0 and
\* PC is 0xFF96.
C20_Witness ==
    /\ Stepped("BEQ")
    /\ last.pre.pc = \h0014
    /\ ByteAt(last.pre, \h0015) = \h80
    /\ FlagZ(last.pre) = 1
    /\ sim.pc = \hFF96

----------------------------------------------------------------------------
(* C21 *)

\* C21: JMP (indirect) with operand address a = (hh << 8) | ll sets PC to
\* memory[a] | memory[(a + 1) mod 65536] << 8 for every a, operands with
\* ll = 0xFF included; JMP absolute sets PC to (hh << 8) | ll.
C21_Jump ==
    Ran({"JMP"}) =>
        LET a == 256 * last.args[2] + last.args[1]
        IN  /\ last.code = \h6C => sim.pc = ByteAt(last.pre, a) + 256 * ByteAt(last.pre, a + 1)
            /\ last.code = \h4C => sim.pc = a

----------------------------------------------------------------------------
(* C22 *)

\* What an indexed load or store did, against the effective address of the
\* 6502: a load leaves the byte at that address in its register, a store puts
\* its register there and changes no other byte.
AccessesOperand ==
    LET a == OperandAddress(last.pre, LastMode, last.args)
    IN  /\ Ran({"LDA"}) => sim.ac = MemRead(last.pre.mem, a)
        /\ Ran({"LDX"}) => sim.x = MemRead(last.pre.mem, a)
        /\ Ran({"STA"}) => sim.mem = MemStore(last.pre.mem, a, last.pre.ac)
        /\ Ran({"STX"}) => sim.mem = MemStore(last.pre.mem, a, last.pre.x)

\* C22: zero-page,X and zero-page,Y read and write address (zp + index) mod
\* 256, and (indirect,X) fetches its pointer from (zp + X) mod 256 and
\* (zp + X + 1) mod 256, for every operand zp and index value.
C22_ZeroPageIndexed ==
    (Ran({"LDA", "LDX", "STA", "STX"}) /\ LastMode \in {"zeropageX", "zeropageY", "indirectX"})
        => AccessesOperand

----------------------------------------------------------------------------
(* C23 *)

\* C23: for absolute,X, absolute,Y and (indirect),Y the effective address is
\* (base + index) mod 65536, a 16-bit addition with carry from the low byte
\* into the high byte; for (indirect),Y the base is the word at
\* (zp, (zp + 1) mod 256).
C23_AbsoluteIndexed ==
    (Ran({"LDA", "STA"}) /\ LastMode \in {"absoluteX", "absoluteY", "indirectY"})
        => AccessesOperand

----------------------------------------------------------------------------
(* C24 *)

\* C24: a load of a buffer whose first four bytes are not "NESM" is rejected
\* and leaves the interpreter untouched: PC, A, X, Y, SR, SP, every memory
\* byte, the instruction counter and the driver's init/play arming state
\* (inited and the file it holds) are what they were before the attempt.
C24_RejectedLoad ==
    [][last'.kind = "rejected" => (sim' = sim /\ inited' = inited /\ data' = data)]_vars

\* A file is rejected after another was loaded and its first RTS was met.
C24_Witness ==
    /\ last.kind = "rejected"
    /\ inited
    /\ data # <<>>
    /\ sim.cycle > 3
    /\ sim = last.pre

----------------------------------------------------------------------------
(* C25 *)

\* The addresses the body of the loaded file was copied to.
BodyAddresses ==
    LET loadAddress == data[9] + 256 * data[10]
    IN  {loadAddress + i : i \in 0 .. Len(data) - 129}

\* C25: after a successful load, whatever memory held before, every byte in
\* 0x0000..0x07FF, 0x6000..0x7FFF and 0x4000..0x4013 that the body does not
\* cover is 0, memory[0x4015] = 0x0F and memory[0x4017] = 0x40 unless the body
\* covers them, and the body bytes that land in those ranges are kept.  (A
\* byte outside DOMAIN sim.mem reads 0.)
C25_LoadClears ==
    last.kind = "run" =>
        /\ \A a \in DOMAIN sim.mem :
              (/\ \/ a \in \h0000 .. \h07FF
                  \/ a \in \h6000 .. \h7FFF
                  \/ a \in \h4000 .. \h4013
               /\ a \notin BodyAddresses) => MemRead(sim.mem, a) = 0
        /\ \h4015 \notin BodyAddresses => MemRead(sim.mem, \h4015) = \h0F
        /\ \h4017 \notin BodyAddresses => MemRead(sim.mem, \h4017) = \h40
        /\ \A i \in 0 .. Len(data) - 129 :
              MemRead(sim.mem, data[9] + 256 * data[10] + i) = data[129 + i]

\* A reload at 0x07FE after STA $4000 has run: 0x4000 held a byte and is 0
\* again, and the two body bytes below 0x0800 are in memory.
C25_Witness ==
    /\ last.kind = "run"
    /\ MemRead(last.pre.mem, \h4000) # 0
    /\ MemRead(sim.mem, \h4000) = 0
    /\ MemRead(sim.mem, \h07FE) = \hEA /\ MemRead(sim.mem, \h07FF) = \h60

----------------------------------------------------------------------------
(* C26 *)

\* C26: after a successful load of a header with starting-song byte s (offset
\* 0x07) and mode byte m (offset 0x7A), X = 1 if bit 0 of m is set and 0
\* otherwise, and A = (s - 1) mod 256.
C26_LoadRegisters ==
    last.kind = "run" =>
        /\ sim.x = Bit(data[\h7A + 1], 0)
        /\ sim.ac = (data[\h07 + 1] - 1) % 256

----------------------------------------------------------------------------
(* C27 *)

\* C27: a load of an NSF file never fails on the length of its body: body byte
\* i (file offset 0x80 + i) is copied to memory[(load_address + i) mod 65536]
\* for every i, a body that runs past 0xFFFF wrapping to address 0x0000.
C27_BodyCopy ==
    /\ last.kind # "runThrew"
    /\ last.kind = "run" =>
          \A i \in 0 .. Len(data) - 129 :
              ByteAt(sim, data[9] + 256 * data[10] + i) = data[129 + i]

----------------------------------------------------------------------------
(* C28 *)

\* The init and play addresses of the header of the file the runner holds.
InitAddress == data[\h0A + 1] + 256 * data[\h0B + 1]

PlayAddress == data[\h0C + 1] + 256 * data[\h0D + 1]

\* C28: after every successful load, the first one and any later one, PC is
\* the header's init address, and the first step after it that fetches an RTS
\* sets PC to the play address of the file loaded last instead of popping a
\* return address.  The second part is stated for the step that follows the
\* load directly, which is the first one after it.
C28_InitThenPlay ==
    [][/\ last'.kind = "run" => sim'.pc = InitAddress'
       /\ (/\ last.kind = "run"
           /\ last'.kind \in {"step", "trampoline"}
           /\ last' # last
           /\ Ops[MemRead(sim.mem, sim.pc)].name = "RTS")
          => (sim'.pc = PlayAddress /\ sim'.sp = sim.sp)]_vars

----------------------------------------------------------------------------
(* C29 *)

\* C29: once init has returned, every later step that executes the RTS ending
\* the play routine (an RTS with no JSR executed since PC was last set to the
\* play address) leaves PC at the play address again, without using a return
\* address on the stack.  Stated for a play routine whose first instruction is
\* its RTS: the step follows the one that set PC to the play address.
C29_PlayAgain ==
    [][(/\ last.kind = "trampoline"
        /\ last'.kind \in {"step", "trampoline"}
        /\ last' # last
        /\ sim.pc = PlayAddress
        /\ Ops[MemRead(sim.mem, sim.pc)].name = "RTS")
       => (sim'.pc = PlayAddress /\ sim'.sp = sim.sp)]_vars

----------------------------------------------------------------------------
(* C30 *)

\* C30: every step() that completes calls each subscribed callback exactly
\* once, in the order the callbacks were subscribed, and so never calls one
\* that was removed; the ids subscribe returns are pairwise distinct: each is
\* the counter subId, which only grows and is above every id handed out.
C30_Notifications ==
    [][/\ (last' # last /\ last'.kind \in {"step", "trampoline"}) =>
            /\ Len(notified') = Cardinality(subs)
            /\ {notified'[i] : i \in 1 .. Len(notified')} = subs
            /\ \A i, j \in 1 .. Len(notified') : i < j => notified'[i] < notified'[j]
       /\ subId' >= subId
       /\ \A id \in subs' \ subs : id = subId /\ subId' = subId + 1
       /\ \A id \in subs' : id < subId']_vars

\* A step with two callbacks subscribed called the first, then the second.
C30_Witness ==
    /\ last.kind = "step"
    /\ subs = {0, 1}
    /\ notified = <<0, 1>>

----------------------------------------------------------------------------
(* C31 *)

\* C31: with no redirect pending (no file loaded, or the first RTS after the
\* load already met), a step of a JSR at address p followed directly by a step
\* of an RTS at the JSR target leaves PC = (p + 3) mod 65536 and SP at its
\* value before the JSR.
C31_CallReturn ==
    [][(/\ Stepped("JSR")
        /\ inited \/ data = <<>>
        /\ last' # last
        /\ last'.kind = "step"
        /\ Ops[MemRead(sim.mem, sim.pc)].name = "RTS")
       => (sim'.pc = (last.pre.pc + 3) % 65536 /\ sim'.sp = last.pre.sp)]_vars

\* The JSR at 0xFFFD with SP = 0x00 has returned: PC is 0x0000 and SP is 0x00
\* again, the return address lying at 0x0100 and 0x01FF.
C31_Witness ==
    /\ Stepped("RTS")
    /\ inited
    /\ last.pre.pc = \hFFF9
    /\ last.pre.sp = \hFE
    /\ sim.pc = \h0000
    /\ sim.sp = \h00

----------------------------------------------------------------------------
(* C32 *)

\* The byte a store-and-load test stores: the one its first LDA # loads.
StoredValue == 255 - script[Len(script) - 1].args[1]

\* The pointer bytes of an (indirect),Y test are the ones the test placed.
PointerKept(s) ==
    /\ MemRead(s.mem, last.args[1]) = script[1].args[1]
    /\ MemRead(s.mem, (last.args[1] + 1) % 256) = script[2].args[1]

\* C32: STA (zp),Y followed by LDA (zp),Y, with zp, the pointer and Y
\* unchanged, leaves A equal to the stored value, provided the store did not
\* overwrite the pointer bytes; likewise STA abs,X followed by LDA abs,X.
C32_StoreThenLoad ==
    (ip = Len(script) + 1 /\ Ran({"LDA"})) =>
        /\ (LastMode = "indirectY" /\ PointerKept(last.pre)) => sim.ac = StoredValue
        /\ LastMode = "absoluteX" => sim.ac = StoredValue

====
